---------------------------- MODULE Spec2Model ----------------------------
(***************************************************************************)
(* Model of the decode side of pylibjpeg-openjpeg: the sYCC to RGB pixel   *)
(* transform and its three layout handlers (lib/interface/color.c), the    *)
(* component upsampler and the Decode driver (lib/interface/decode.c).     *)
(***************************************************************************)
EXTENDS Integers, Sequences, FiniteSets, TLC

(***************************************************************************)
(* Bounds of the model.                                                    *)
(***************************************************************************)
MaxPrec == 6
MaxNegative == 1
MinSample == 0 - MaxNegative
MaxSample == 63

(***************************************************************************)
(* IEEE-754 binary64 arithmetic, as far as sycc_to_rgb uses it.            *)
(* A magnitude is a natural number counted in units of 2^-54, held in      *)
(* NLimbs little-endian limbs of LimbBits bits; a double is a sign and a   *)
(* magnitude of at most MantBits significant bits.  The operands of        *)
(* sycc_to_rgb are (float)int conversions, exact for |int| < 2^24; the     *)
(* model keeps them below 2^12 so that one rounding never discards more    *)
(* than one limb.                                                          *)
(***************************************************************************)
LimbBits == 16
LimbBase == 65536
NLimbs == 5
MantBits == 53
UnitBits == 54

RECURSIVE Pow2(_)
Pow2(n) == IF n = 0 THEN 1 ELSE 2 * Pow2(n - 1)

RECURSIVE BitLen(_)
BitLen(x) == IF x = 0 THEN 0 ELSE 1 + BitLen(x \div 2)

Abs(x) == IF x < 0 THEN 0 - x ELSE x

\* carry (or borrow) propagation; the value of x is a natural below 2^80
Norm(x) ==
    LET v1 == x[1]
        v2 == x[2] + (v1 \div LimbBase)
        v3 == x[3] + (v2 \div LimbBase)
        v4 == x[4] + (v3 \div LimbBase)
        v5 == x[5] + (v4 \div LimbBase)
    IN  << v1 % LimbBase, v2 % LimbBase, v3 % LimbBase, v4 % LimbBase, v5 >>

BigZero == << 0, 0, 0, 0, 0 >>

BigMulSmall(a, c) == Norm([i \in 1..NLimbs |-> a[i] * c])

BigAdd(a, b) == Norm([i \in 1..NLimbs |-> a[i] + b[i]])

\* a - b for a >= b
BigSub(a, b) == Norm([i \in 1..NLimbs |-> a[i] - b[i]])

RECURSIVE BigLessFrom(_, _, _)
BigLessFrom(a, b, i) ==
    IF i = 0 THEN FALSE
    ELSE IF a[i] # b[i] THEN a[i] < b[i]
    ELSE BigLessFrom(a, b, i - 1)

BigLess(a, b) == BigLessFrom(a, b, NLimbs)

RECURSIVE BigBitLenFrom(_, _)
BigBitLenFrom(a, i) ==
    IF i = 0 THEN 0
    ELSE IF a[i] # 0 THEN LimbBits * (i - 1) + BitLen(a[i])
    ELSE BigBitLenFrom(a, i - 1)

BigBitLen(a) == BigBitLenFrom(a, NLimbs)

\* round to nearest, ties to even, to MantBits significant bits
RoundToDouble(a) ==
    LET s == BigBitLen(a) - MantBits
    IN  IF s <= 0 THEN a
        ELSE LET p    == Pow2(s)
                 rem  == a[1] % p
                 half == p \div 2
                 qodd == IF s = LimbBits THEN a[2] % 2 = 1
                         ELSE (a[1] \div p) % 2 = 1
                 up   == rem > half \/ (rem = half /\ qodd)
             IN  Norm([a EXCEPT ![1] = a[1] - rem + (IF up THEN p ELSE 0)])

\* the double constants of color.c, in units of 2^-54
D_1_402 == << 31980, 13631, 47710, 89, 0 >>
D_0_344 == << 48234, 37748, 1048, 22, 0 >>
D_0_714 == << 1048, 3670, 45613, 45, 0 >>
D_1_772 == << 50332, 45088, 26738, 113, 0 >>

\* k * (float)c in double arithmetic: the exact product, rounded once
DMul(k, c) ==
    [neg |-> c < 0, mag |-> RoundToDouble(BigMulSmall(k, Abs(c)))]

\* a + b in double arithmetic: the exact sum, rounded once
DAdd(a, b) ==
    IF a.neg = b.neg
    THEN [neg |-> a.neg, mag |-> RoundToDouble(BigAdd(a.mag, b.mag))]
    ELSE IF BigLess(a.mag, b.mag)
    THEN [neg |-> b.neg, mag |-> RoundToDouble(BigSub(b.mag, a.mag))]
    ELSE [neg |-> a.neg, mag |-> RoundToDouble(BigSub(a.mag, b.mag))]

\* integer part of a magnitude: the bits above the UnitBits fraction bits
BigIntPart(a) == (a[4] \div 64) + 1024 * a[5]

BigHasFraction(a) == a[1] # 0 \/ a[2] # 0 \/ a[3] # 0 \/ a[4] % 64 # 0

\* the bug the C cast does not have: rounding toward minus infinity
DFloorToInt(d) ==
    IF d.neg
    THEN 0 - (BigIntPart(d.mag) + (IF BigHasFraction(d.mag) THEN 1 ELSE 0))
    ELSE BigIntPart(d.mag)

\* (int) of a double: the fraction is discarded (C11 6.3.1.4)
DToInt(d) == IF d.neg THEN 0 - BigIntPart(d.mag) ELSE BigIntPart(d.mag)

\* the saturation of sycc_to_rgb without its upper branch
ClampNoUpper(v, upb) == IF v < 0 THEN 0 ELSE v

Clamp(v, upb) == IF v < 0 THEN 0 ELSE IF v > upb THEN upb ELSE v

\* the transform without cr -= offset
sycc_to_rgb_KeepCr(offset, upb, y, cb0, cr0) ==
    LET cb == cb0 - offset
        cr == cr0
        r  == y + DToInt(DMul(D_1_402, cr))
        g  == y - DToInt(DAdd(DMul(D_0_344, cb), DMul(D_0_714, cr)))
        b  == y + DToInt(DMul(D_1_772, cb))
    IN  [r |-> Clamp(r, upb), g |-> Clamp(g, upb), b |-> Clamp(b, upb)]

sycc_to_rgb(offset, upb, y, cb0, cr0) ==
    LET cb == cb0 - offset
        cr == cr0 - offset
        r  == y + DToInt(DMul(D_1_402, cr))
        g  == y - DToInt(DAdd(DMul(D_0_344, cb), DMul(D_0_714, cr)))
        b  == y + DToInt(DMul(D_1_772, cb))
    IN  [r |-> Clamp(r, upb), g |-> Clamp(g, upb), b |-> Clamp(b, upb)]

\* offset and upb as the handlers derive them from the luma precision
Offset(prec) == Pow2(prec - 1)
Upb(prec) == Pow2(prec) - 1

(***************************************************************************)
(* Images as the codec hands them to Decode.                               *)
(***************************************************************************)
MaxW == 4
MaxH == 4
MaxOrigin == 1

CeilDiv(a, b) == (a + b - 1) \div b

\* a component of a layout: sub-sampling factors and the deviation (sx, sy)
\* of the component origin from the reference grid (0 for a conforming one)
Cmp(dx, dy) == [dx |-> dx, dy |-> dy, sx |-> 0, sy |-> 0]
CmpAt(dx, dy, sx, sy) == [dx |-> dx, dy |-> dy, sx |-> sx, sy |-> sy]

Layouts ==
    { << Cmp(1, 1) >>,
      << Cmp(1, 1), Cmp(2, 2) >>,
      << Cmp(1, 1), Cmp(1, 1), Cmp(1, 1) >>,
      << Cmp(1, 1), Cmp(2, 1), Cmp(2, 1) >>,
      << Cmp(1, 1), Cmp(2, 2), Cmp(2, 2) >>,
      << Cmp(1, 1), Cmp(2, 1), Cmp(2, 2) >>,
      << Cmp(1, 1), Cmp(2, 2), Cmp(1, 1) >>,
      << Cmp(1, 1), Cmp(1, 2), Cmp(1, 2) >>,
      << Cmp(2, 2), Cmp(2, 2), Cmp(2, 2) >>,
      << Cmp(1, 1), Cmp(4, 4), Cmp(4, 4) >>,
      << Cmp(1, 1), Cmp(2, 2), Cmp(2, 2), Cmp(1, 1) >>,
      << Cmp(1, 1), Cmp(1, 1), Cmp(1, 1), Cmp(2, 2) >>,
      << Cmp(1, 1), Cmp(1, 1), Cmp(1, 1), CmpAt(2, 2, 1, 0) >>,
      << Cmp(1, 1), CmpAt(1, 2, 0, 1) >> }

MaxComps == 4

ColorSpaces == {"OPJ_CLRSPC_UNSPECIFIED", "OPJ_CLRSPC_SRGB", "OPJ_CLRSPC_SYCC"}

ImagePrecs == {8}

\* what an out-of-bounds or uninitialised read may yield
JunkValues == {0 - 7, 200}

\* sample i of component c (numbered from 0) of a decoded image
PatternSample(pat, prec, c, i) ==
    IF c = 0
    THEN (IF i = 0 THEN 0 ELSE IF i = 1 THEN Upb(prec) ELSE 10 * i)
    ELSE IF c \in {1, 2}
    THEN (IF pat = "neutral" THEN Offset(prec) ELSE Offset(prec) - 3 + 2 * i + c)
    ELSE 100 + i

\* images of other sample formats, << prec, sgnd >>, come in small sizes
MaxDeepW == 2
MaxDeepH == 2
DeepFormats == { << 8, 1 >>, << 12, 0 >>, << 12, 1 >>, << 17, 0 >>, << 33, 0 >> }

\* the patterns are laid out for at most PatternBits bits, so that a sample
\* of a component deeper than an int still fits one
PatternBits == 8
PatternPrec(prec) == IF prec > 31 THEN PatternBits ELSE prec

\* sample i of component cmp (numbered c from 0): a signed component holds
\* the same pattern moved down by half its range
DecodedSample(pat, cmp, c, i) ==
    PatternSample(pat, PatternPrec(cmp.prec), c, i)
        - (IF cmp.sgnd = 1 THEN Offset(PatternPrec(cmp.prec)) ELSE 0)

NullImage ==
    [exists |-> FALSE, destroys |-> 0,
     x0 |-> 0, y0 |-> 0, x1 |-> 0, y1 |-> 0,
     color_space |-> "OPJ_CLRSPC_UNSPECIFIED", numcomps |-> 0, comps |-> << >>]

\* the image opj_read_header builds from the SIZ marker: component data is
\* not allocated yet
HeaderImage(x0, y0, w, h, layout, cs, prec) ==
    [exists |-> TRUE, destroys |-> 0,
     x0 |-> x0, y0 |-> y0, x1 |-> x0 + w, y1 |-> y0 + h,
     color_space |-> cs, numcomps |-> Len(layout),
     comps |-> [c \in 1..Len(layout) |->
        [dx |-> layout[c].dx, dy |-> layout[c].dy,
         x0 |-> CeilDiv(x0, layout[c].dx) + layout[c].sx,
         y0 |-> CeilDiv(y0, layout[c].dy) + layout[c].sy,
         w |-> CeilDiv(x0 + w, layout[c].dx) - CeilDiv(x0, layout[c].dx),
         h |-> CeilDiv(y0 + h, layout[c].dy) - CeilDiv(y0, layout[c].dy),
         prec |-> prec, sgnd |-> 0, alpha |-> IF c = 4 THEN 1 ELSE 0,
         data |-> 0]]]

\* the same image with components of signedness sgnd
WithSign(img, sgnd) ==
    [img EXCEPT !.comps = [c \in 1..img.numcomps |->
                              [img.comps[c] EXCEPT !.sgnd = sgnd]]]

(***************************************************************************)
(* The heap of sample buffers.  Buffer 0 is NULL; buffers 1..MaxComps are  *)
(* the planes the codec allocates, the next three are d0, d1, d2 of the    *)
(* colour handlers, the last MaxComps the planes of the upsampled image.   *)
(***************************************************************************)
NumBufs == 2 * MaxComps + 3
ConvBuf(k) == MaxComps + k
UpBuf(c) == MaxComps + 3 + c

NoBuf == [st |-> "none", frees |-> 0, mem |-> << >>]

LiveBuf(mem) == [st |-> "live", frees |-> 0, mem |-> mem]

\* opj_image_data_free / free: NULL is ignored
FreeBufs(h, ids) ==
    [b \in DOMAIN h |->
        IF b \in ids
        THEN [h[b] EXCEPT !.st = "freed", !.frees = h[b].frees + 1]
        ELSE h[b]]

\* opj_image_destroy: frees the data of every component, then the image
DataOf(img) == {img.comps[c].data : c \in 1..img.numcomps} \ {0}

(***************************************************************************)
(* The colour handlers of color.c.  A handler walks the luma, chroma and   *)
(* destination pointers; the walk is recorded as the sequence of its       *)
(* sycc_to_rgb calls: Px(y, c) reads luma index y and chroma index c and   *)
(* writes destination index y (the r, g, b pointers advance with y), and   *)
(* c = NoChroma stands for the literal arguments cb = 0, cr = 0.           *)
(***************************************************************************)
NoChroma == 0 - 1

Px(y, c) == [y |-> y, c |-> c]

\* x & ~(size_t)1U
EvenPart(x) == x - (x % 2)

\* for (i = 0U; i < max; ++i) of sycc444_to_rgb
RECURSIVE Walk444(_, _, _)
Walk444(i, max, ops) ==
    IF i < max THEN Walk444(i + 1, max, Append(ops, Px(i, i))) ELSE ops

\* the paired loop over the columns of one luma row: for (j = 0U; j < lim;
\* j += 2U), st = [y, cb, ops]
RECURSIVE RowPairs(_, _, _)
RowPairs(j, lim, st) ==
    IF j < lim
    THEN RowPairs(j + 2, lim,
            [y |-> st.y + 2, cb |-> st.cb + 1,
             ops |-> st.ops \o << Px(st.y, st.cb), Px(st.y + 1, st.cb) >>])
    ELSE [j |-> j, st |-> st]

\* a row of sycc422_to_rgb whose boundary column reads the chroma sample too
Row422NoBoundary(st, offx, loopmaxw) ==
    LET s1 == IF offx > 0
              THEN [y |-> st.y + 1, cb |-> st.cb,
                    ops |-> Append(st.ops, Px(st.y, st.cb))]
              ELSE st
        l  == RowPairs(0, EvenPart(loopmaxw), s1)
    IN  IF l.j < loopmaxw
        THEN [y |-> l.st.y + 1, cb |-> l.st.cb + 1,
              ops |-> Append(l.st.ops, Px(l.st.y, l.st.cb))]
        ELSE l.st

\* one iteration of the row loop of sycc422_to_rgb
Row422(st, offx, loopmaxw) ==
    LET s1 == IF offx > 0
              THEN [y |-> st.y + 1, cb |-> st.cb,
                    ops |-> Append(st.ops, Px(st.y, NoChroma))]
              ELSE st
        l  == RowPairs(0, EvenPart(loopmaxw), s1)
    IN  IF l.j < loopmaxw
        THEN [y |-> l.st.y + 1, cb |-> l.st.cb + 1,
              ops |-> Append(l.st.ops, Px(l.st.y, l.st.cb))]
        ELSE l.st

RECURSIVE Rows422(_, _, _, _, _)
Rows422(i, maxh, st, offx, loopmaxw) ==
    IF i < maxh
    THEN Rows422(i + 1, maxh, Row422(st, offx, loopmaxw), offx, loopmaxw)
    ELSE st

Walk422(maxw, maxh, x0) ==
    LET offx == x0 % 2
        loopmaxw == maxw - offx
    IN  Rows422(0, maxh, [y |-> 0, cb |-> 0, ops |-> << >>], offx, loopmaxw).ops

\* the first line of sycc420_to_rgb when y0 is odd: for (j = 0; j < maxw; ++j)
RECURSIVE FirstLine420(_, _, _)
FirstLine420(j, maxw, st) ==
    IF j < maxw
    THEN FirstLine420(j + 1, maxw,
            [y |-> st.y + 1, cb |-> st.cb,
             ops |-> Append(st.ops, Px(st.y, NoChroma))])
    ELSE st

\* the paired loop over the columns of two luma rows, st = [y, ny, cb, ops]
RECURSIVE RowPairs420(_, _, _)
RowPairs420(j, lim, st) ==
    IF j < lim
    THEN RowPairs420(j + 2, lim,
            [y |-> st.y + 2, ny |-> st.ny + 2, cb |-> st.cb + 1,
             ops |-> st.ops \o << Px(st.y, st.cb), Px(st.y + 1, st.cb),
                                  Px(st.ny, st.cb), Px(st.ny + 1, st.cb) >>])
    ELSE [j |-> j, st |-> st]

\* one iteration of the loop over pairs of luma rows of sycc420_to_rgb
TwoRows420(st, maxw, offx, loopmaxw) ==
    LET s0 == [y |-> st.y, ny |-> st.y + maxw, cb |-> st.cb, ops |-> st.ops]
        s1 == IF offx > 0
              THEN [y |-> s0.y + 1, ny |-> s0.ny + 1, cb |-> s0.cb,
                    ops |-> s0.ops \o << Px(s0.y, NoChroma), Px(s0.ny, s0.cb) >>]
              ELSE s0
        l  == RowPairs420(0, EvenPart(loopmaxw), s1)
        s2 == IF l.j < loopmaxw
              THEN [y |-> l.st.y + 1, ny |-> l.st.ny + 1, cb |-> l.st.cb + 1,
                    ops |-> l.st.ops \o << Px(l.st.y, l.st.cb),
                                           Px(l.st.ny, l.st.cb) >>]
              ELSE l.st
    IN  [y |-> s2.y + maxw, cb |-> s2.cb, ops |-> s2.ops]

RECURSIVE Rows420(_, _, _, _, _, _)
Rows420(i, lim, st, maxw, offx, loopmaxw) ==
    IF i < lim
    THEN Rows420(i + 2, lim, TwoRows420(st, maxw, offx, loopmaxw),
                 maxw, offx, loopmaxw)
    ELSE [i |-> i, st |-> st]

\* the last, unpaired luma row of sycc420_to_rgb
LastRow420(st, maxw) ==
    LET l == RowPairs(0, EvenPart(maxw), st)
    IN  IF l.j < maxw
        THEN Append(l.st.ops, Px(l.st.y, l.st.cb))
        ELSE l.st.ops

Walk420(maxw, maxh, x0, y0) ==
    LET offx == x0 % 2
        loopmaxw == maxw - offx
        offy == y0 % 2
        loopmaxh == maxh - offy
        s0 == [y |-> 0, cb |-> 0, ops |-> << >>]
        s1 == IF offy > 0 THEN FirstLine420(0, maxw, s0) ELSE s0
        l  == Rows420(0, EvenPart(loopmaxh), s1, maxw, offx, loopmaxw)
    IN  IF l.i < loopmaxh THEN LastRow420(l.st, maxw) ELSE l.st.ops

\* reading index i (from 0) of a plane; outside the plane the read is
\* undefined and yields junk
InPlane(mem, i) == i >= 0 /\ i < Len(mem)

ReadAt(mem, i, junk) == IF InPlane(mem, i) THEN mem[i + 1] ELSE junk

WriteAt(mem, i, v) == IF InPlane(mem, i) THEN [mem EXCEPT ![i + 1] = v] ELSE mem

\* the destination planes after the calls of a walk, in call order
RECURSIVE RunWalk(_, _, _, _, _, _, _, _, _)
RunWalk(ops, k, offset, upb, ym, cbm, crm, junk, d) ==
    IF k > Len(ops) THEN d
    ELSE LET op  == ops[k]
             yv  == ReadAt(ym, op.y, junk)
             cbv == IF op.c = NoChroma THEN 0 ELSE ReadAt(cbm, op.c, junk)
             crv == IF op.c = NoChroma THEN 0 ELSE ReadAt(crm, op.c, junk)
             o   == sycc_to_rgb(offset, upb, yv, cbv, crv)
         IN  RunWalk(ops, k + 1, offset, upb, ym, cbm, crm, junk,
                     [r |-> WriteAt(d.r, op.y, o.r),
                      g |-> WriteAt(d.g, op.y, o.g),
                      b |-> WriteAt(d.b, op.y, o.b)])

WalkReadsOutside(ops, ym, cbm, crm) ==
    \E k \in 1..Len(ops) :
        \/ ~InPlane(ym, ops[k].y)
        \/ ops[k].c # NoChroma /\ (~InPlane(cbm, ops[k].c) \/ ~InPlane(crm, ops[k].c))

WalkWritesOutside(ops, max) ==
    \E k \in 1..Len(ops) : ops[k].y < 0 \/ ops[k].y >= max

\* the least and the greatest value of the 32-bit int
INT_MIN == 0 - 1073741824 - 1073741824
INT_MAX == 1073741823 + 1073741824

\* 1 << n in a 32-bit int.  From n = 31 on the shift is undefined; a build
\* whose shift instruction masks the count yields the shift by n mod 32,
\* one whose instruction does not yields 0.  The undefined results of one
\* call are drawn together: a negative junk stands for the masking build.
ShiftLeftOne(n, junk) ==
    IF n <= 30 THEN Pow2(n)
    ELSE IF junk < 0 THEN (IF n % 32 = 31 THEN INT_MIN ELSE Pow2(n % 32))
    ELSE 0

\* upb = (int)prec; offset = 1 << (upb - 1); upb = (1 << upb) - 1;
\* INT_MIN - 1 overflows the int and wraps to INT_MAX
HandlerOffset(prec, junk) == ShiftLeftOne(prec - 1, junk)
HandlerUpb(prec, junk) ==
    IF ShiftLeftOne(prec, junk) = INT_MIN THEN INT_MAX
    ELSE ShiftLeftOne(prec, junk) - 1

(***************************************************************************)
(* What the handlers do to the image and the heap.  aok[k] tells whether   *)
(* the k-th opj_image_data_alloc of the handler succeeds.                  *)
(***************************************************************************)
\* d0 = r = alloc, d1 = g = alloc, d2 = b = alloc: the three are always
\* attempted; a fresh buffer holds indeterminate values
AllocRGB(h, aok, max, junk) ==
    [b \in DOMAIN h |->
        IF \E k \in 1..3 : b = ConvBuf(k) /\ aok[k]
        THEN LiveBuf([i \in 1..max |-> junk])
        ELSE h[b]]

\* a fails: label that forgets the buffers that were allocated
FailsLeak(h, aok) == h

\* fails: opj_image_data_free(r); (g); (b); a NULL pointer is ignored
Fails(h, aok) == FreeBufs(h, {ConvBuf(k) : k \in {j \in 1..3 : aok[j]}})

\* an installation that rewrites the geometry of a fourth component as well
InstallRGBAll(img, adopt) ==
    [img EXCEPT
        !.color_space = "OPJ_CLRSPC_SRGB",
        !.comps = [c \in 1..img.numcomps |->
            IF c > 3
            THEN [img.comps[c] EXCEPT
                    !.w = img.comps[1].w + 1, !.h = img.comps[1].h,
                    !.dx = img.comps[1].dx, !.dy = img.comps[1].dy]
            ELSE IF adopt /\ c > 1
            THEN [img.comps[c] EXCEPT !.data = ConvBuf(c),
                    !.w = img.comps[1].w, !.h = img.comps[1].h,
                    !.dx = img.comps[1].dx, !.dy = img.comps[1].dy]
            ELSE [img.comps[c] EXCEPT !.data = ConvBuf(c)]]]

\* an installation that hands d0 to all three components
InstallRGBAliased(img, adopt) ==
    [img EXCEPT
        !.color_space = "OPJ_CLRSPC_SRGB",
        !.comps = [c \in 1..img.numcomps |->
            IF c > 3 THEN img.comps[c]
            ELSE IF adopt /\ c > 1
            THEN [img.comps[c] EXCEPT !.data = ConvBuf(1),
                    !.w = img.comps[1].w, !.h = img.comps[1].h,
                    !.dx = img.comps[1].dx, !.dy = img.comps[1].dy]
            ELSE [img.comps[c] EXCEPT !.data = ConvBuf(1)]]]

\* an installation that leaves the chroma components their subsampled
\* geometry
InstallRGBKeepGeometry(img, adopt) ==
    [img EXCEPT
        !.color_space = "OPJ_CLRSPC_SRGB",
        !.comps = [c \in 1..img.numcomps |->
            IF c > 3 THEN img.comps[c]
            ELSE [img.comps[c] EXCEPT !.data = ConvBuf(c)]]]

\* free the three old planes, install d0, d1, d2, set the colour space;
\* the 4:2:2 and 4:2:0 handlers also copy w, h, dx, dy of component 0
InstallRGB(img, adopt) ==
    [img EXCEPT
        !.color_space = "OPJ_CLRSPC_SRGB",
        !.comps = [c \in 1..img.numcomps |->
            IF c > 3 THEN img.comps[c]
            ELSE IF adopt /\ c > 1
            THEN [img.comps[c] EXCEPT !.data = ConvBuf(c),
                    !.w = img.comps[1].w, !.h = img.comps[1].h,
                    !.dx = img.comps[1].dx, !.dy = img.comps[1].dy]
            ELSE [img.comps[c] EXCEPT !.data = ConvBuf(c)]]]

SyccConvert(img, h, ops, aok, junk, adopt) ==
    LET prec == img.comps[1].prec
        max  == img.comps[1].w * img.comps[1].h
        h1   == AllocRGB(h, aok, max, junk)
        ym   == h[img.comps[1].data].mem
        cbm  == h[img.comps[2].data].mem
        crm  == h[img.comps[3].data].mem
    IN  IF ~(aok[1] /\ aok[2] /\ aok[3])
        THEN [img |-> img, heap |-> Fails(h1, aok), failed |-> TRUE,
              oob_read |-> FALSE, oob_write |-> FALSE]
        ELSE LET d  == RunWalk(ops, 1, HandlerOffset(prec, junk), HandlerUpb(prec, junk),
                               ym, cbm, crm, junk,
                               [r |-> h1[ConvBuf(1)].mem,
                                g |-> h1[ConvBuf(2)].mem,
                                b |-> h1[ConvBuf(3)].mem])
                 h2 == [h1 EXCEPT ![ConvBuf(1)].mem = d.r,
                                  ![ConvBuf(2)].mem = d.g,
                                  ![ConvBuf(3)].mem = d.b]
                 h3 == FreeBufs(h2, {img.comps[c].data : c \in 1..3})
             IN  [img |-> InstallRGB(img, adopt), heap |-> h3, failed |-> FALSE,
                  oob_read |-> WalkReadsOutside(ops, ym, cbm, crm),
                  oob_write |-> WalkWritesOutside(ops, max)]

sycc444_to_rgb(img, h, aok, junk) ==
    SyccConvert(img, h, Walk444(0, img.comps[1].w * img.comps[1].h, << >>),
                aok, junk, FALSE)

sycc422_to_rgb(img, h, aok, junk) ==
    SyccConvert(img, h, Walk422(img.comps[1].w, img.comps[1].h, img.x0),
                aok, junk, TRUE)

sycc420_to_rgb(img, h, aok, junk) ==
    SyccConvert(img, h, Walk420(img.comps[1].w, img.comps[1].h, img.x0, img.y0),
                aok, junk, TRUE)

HasFactors(img, c, dx, dy) == img.comps[c].dx = dx /\ img.comps[c].dy = dy

\* a dispatch that looks at components 0 and 1 only
HandlerOfLoose(img) ==
    IF img.numcomps < 3 THEN "gray"
    ELSE IF HasFactors(img, 1, 1, 1) /\ HasFactors(img, 2, 2, 2) THEN "sycc420"
    ELSE IF HasFactors(img, 1, 1, 1) /\ HasFactors(img, 2, 2, 1) THEN "sycc422"
    ELSE IF HasFactors(img, 1, 1, 1) /\ HasFactors(img, 2, 1, 1) THEN "sycc444"
    ELSE "skip"

\* the branch color_sycc_to_rgb takes
HandlerOf(img) ==
    IF img.numcomps < 3 THEN "gray"
    ELSE IF /\ HasFactors(img, 1, 1, 1)
            /\ HasFactors(img, 2, 2, 2)
            /\ HasFactors(img, 3, 2, 2) THEN "sycc420"
    ELSE IF /\ HasFactors(img, 1, 1, 1)
            /\ HasFactors(img, 2, 2, 1)
            /\ HasFactors(img, 3, 2, 1) THEN "sycc422"
    ELSE IF /\ HasFactors(img, 1, 1, 1)
            /\ HasFactors(img, 2, 1, 1)
            /\ HasFactors(img, 3, 1, 1) THEN "sycc444"
    ELSE "skip"

Untouched(img, h) ==
    [img |-> img, heap |-> h, failed |-> FALSE,
     oob_read |-> FALSE, oob_write |-> FALSE]

color_sycc_to_rgb(img, h, aok, junk) ==
    LET hd == HandlerOf(img)
    IN  IF hd = "gray"
        THEN [Untouched(img, h) EXCEPT !.img.color_space = "OPJ_CLRSPC_GRAY"]
        ELSE IF hd = "sycc420" THEN sycc420_to_rgb(img, h, aok, junk)
        ELSE IF hd = "sycc422" THEN sycc422_to_rgb(img, h, aok, junk)
        ELSE IF hd = "sycc444" THEN sycc444_to_rgb(img, h, aok, junk)
        ELSE Untouched(img, h)

(***************************************************************************)
(* upsample_image_components of decode.c.  The fill of one destination     *)
(* plane threads st = [mem, oobr, oobw]: the plane, and whether a source   *)
(* read or a destination write fell outside its buffer.  d and s are the   *)
(* offsets of l_dst and l_src from the start of their buffers.             *)
(***************************************************************************)
Store(st, i, v) ==
    IF InPlane(st.mem, i) THEN [st EXCEPT !.mem[i + 1] = v]
    ELSE [st EXCEPT !.oobw = TRUE]

\* l_dst[x] = l_src[xorg]
StoreSrc(st, i, src, j, junk) ==
    LET t == Store(st, i, ReadAt(src, j, junk))
    IN  IF InPlane(src, j) THEN t ELSE [t EXCEPT !.oobr = TRUE]

\* memset(l_dst, 0, w), and for (x = 0U; x < xoff; ++x) l_dst[x] = 0
RECURSIVE ZeroRun(_, _, _, _)
ZeroRun(st, d, x, n) ==
    IF x < n THEN ZeroRun(Store(st, d + x, 0), d, x + 1, n) ELSE st

\* memcpy(l_dst, l_dst - w, w)
RECURSIVE CopyRowAbove(_, _, _, _)
CopyRowAbove(st, d, x, w) ==
    IF x < w
    THEN CopyRowAbove(Store(st, d + x, ReadAt(st.mem, d - w + x, 0)), d, x + 1, w)
    ELSE st

\* for (dx = 0U; dx < l_org_cmp->dx; ++dx) l_dst[x + dx] = l_src[xorg]
RECURSIVE Replicate(_, _, _, _, _, _, _)
Replicate(st, d, k, dx, src, j, junk) ==
    IF k < dx
    THEN Replicate(StoreSrc(st, d + k, src, j, junk), d, k + 1, dx, src, j, junk)
    ELSE st

\* for (; x < w - (dx - 1U); x += dx, ++xorg)
RECURSIVE Blocks(_, _, _, _, _, _, _, _, _)
Blocks(st, d, x, xorg, w, dx, src, s, junk) ==
    IF x < w - (dx - 1)
    THEN Blocks(Replicate(st, d + x, 0, dx, src, s + xorg, junk),
                d, x + dx, xorg + 1, w, dx, src, s, junk)
    ELSE [st |-> st, x |-> x, xorg |-> xorg]

\* for (; x < w; ++x) l_dst[x] = l_src[xorg]
RECURSIVE TailColumns(_, _, _, _, _, _, _, _)
TailColumns(st, d, x, xorg, w, src, s, junk) ==
    IF x < w
    THEN TailColumns(StoreSrc(st, d + x, src, s + xorg, junk), d, x + 1, xorg, w, src, s, junk)
    ELSE st

\* one destination row built from one source row
BuildRow(st, d, s, w, dx, xoff, src, junk) ==
    LET z == ZeroRun(st, d, 0, xoff)
        b == IF w > dx - 1
             THEN Blocks(z, d, xoff, 0, w, dx, src, s, junk)
             ELSE [st |-> z, x |-> xoff, xorg |-> 0]
    IN  TailColumns(b.st, d, b.x, b.xorg, w, src, s, junk)

\* for (y = 0U; y < yoff; ++y) { memset; l_dst += w; }
RECURSIVE ZeroRows(_, _, _, _)
ZeroRows(st, y, yoff, w) ==
    IF y < yoff THEN ZeroRows(ZeroRun(st, y * w, 0, w), y + 1, yoff, w) ELSE st

\* for (dy = 1U; dy < l_org_cmp->dy; ++dy) { memcpy; l_dst += w; }
RECURSIVE CopyRows(_, _, _, _, _)
CopyRows(st, d, k, n, w) ==
    IF k < n THEN CopyRows(CopyRowAbove(st, d, 0, w), d + w, k + 1, n, w) ELSE st

\* for (; y < h - (dy - 1U); y += dy): a full group of dy rows
RECURSIVE Groups(_, _, _, _, _, _, _, _, _, _, _, _)
Groups(st, y, d, s, w, h, dx, dy, xoff, src, orgw, junk) ==
    IF y < h - (dy - 1)
    THEN Groups(CopyRows(BuildRow(st, d, s, w, dx, xoff, src, junk),
                         d + w, 1, dy, w),
                y + dy, d + dy * w, s + orgw, w, h, dx, dy, xoff, src, orgw, junk)
    ELSE [st |-> st, y |-> y, d |-> d, s |-> s]

\* if (y < h): the last, partial group
LastGroup(g, w, h, dx, xoff, src, junk) ==
    IF g.y < h
    THEN CopyRows(BuildRow(g.st, g.d, g.s, w, dx, xoff, src, junk),
                  g.d + w, g.y + 1, h, w)
    ELSE g.st

UpsamplePlane(dst, src, orgw, w, h, dx, dy, xoff, yoff, junk) ==
    LET z == ZeroRows([mem |-> dst, oobr |-> FALSE, oobw |-> FALSE], 0, yoff, w)
        g == IF h > dy - 1
             THEN Groups(z, yoff, yoff * w, 0, w, h, dx, dy, xoff, src, orgw, junk)
             ELSE [st |-> z, y |-> yoff, d |-> yoff * w, s |-> 0]
    IN  LastGroup(g, w, h, dx, xoff, src, junk)

\* else branch: memcpy(l_new_cmp->data, l_org_cmp->data, 4 * w * h)
RECURSIVE CopyPlane(_, _, _, _, _)
CopyPlane(st, src, i, n, junk) ==
    IF i < n THEN CopyPlane(StoreSrc(st, i, src, i, junk), src, i + 1, n, junk) ELSE st

\* a test that sends every component through the upsampling
NeedsUpsamplingAlways(cmp) == cmp.dx >= 1 \/ cmp.dy >= 1

NeedsUpsampling(cmp) == cmp.dx > 1 \/ cmp.dy > 1

\* the offset without the factor: comp.x0 - image.x0
XOffUnscaled(img, c) == img.comps[c].x0 - img.x0

\* OPJ_UINT32 xoff = dx * comp.x0 - image.x0, as the mathematical difference
XOff(img, c) == img.comps[c].dx * img.comps[c].x0 - img.x0
YOff(img, c) == img.comps[c].dy * img.comps[c].y0 - img.y0

\* the unsigned test off >= factor: a negative difference has wrapped around
\* to a value above every factor
OffsetInvalid(off, factor) == off < 0 \/ off >= factor

\* a geometry test that accepts every offset
InvalidGeometryNever(img, c) == FALSE

InvalidGeometry(img, c) ==
    \/ OffsetInvalid(XOff(img, c), img.comps[c].dx)
    \/ OffsetInvalid(YOff(img, c), img.comps[c].dy)

\* component parameters that keep the size of the original component
NewCmptParmKeepSize(org, c) ==
    [dx |-> 1, dy |-> 1, x0 |-> org.x0, y0 |-> org.y0,
     w |-> org.comps[c].w, h |-> org.comps[c].h,
     prec |-> org.comps[c].prec, sgnd |-> org.comps[c].sgnd]

\* the component parameters filled in for opj_image_create
NewCmptParm(org, c) ==
    [dx |-> 1, dy |-> 1, x0 |-> org.x0, y0 |-> org.y0,
     w |-> IF org.comps[c].dx > 1 THEN org.x1 - org.x0 ELSE org.comps[c].w,
     h |-> IF org.comps[c].dy > 1 THEN org.y1 - org.y0 ELSE org.comps[c].h,
     prec |-> org.comps[c].prec, sgnd |-> org.comps[c].sgnd]

\* opj_image_create, then the copy of x0, x1, y0, y1 and of alpha
NewImage(org) ==
    [exists |-> TRUE, destroys |-> 0,
     x0 |-> org.x0, y0 |-> org.y0, x1 |-> org.x1, y1 |-> org.y1,
     color_space |-> org.color_space, numcomps |-> org.numcomps,
     comps |-> [c \in 1..org.numcomps |->
        LET p == NewCmptParm(org, c)
        IN  [dx |-> p.dx, dy |-> p.dy, x0 |-> p.x0, y0 |-> p.y0,
             w |-> p.w, h |-> p.h, prec |-> p.prec, sgnd |-> p.sgnd,
             alpha |-> org.comps[c].alpha, data |-> UpBuf(c)]]]

\* opj_image_destroy
DestroyImage(is, h, id) ==
    [imgs |-> [is EXCEPT ![id].exists = FALSE, ![id].destroys = is[id].destroys + 1],
     heap |-> FreeBufs(h, DataOf(is[id]))]

\* the component loop: components 1..c-1 are filled; stops at the first
\* component with an invalid geometry
RECURSIVE FillComponents(_, _, _, _, _, _)
FillComponents(org, new, h, c, junk, acc) ==
    IF c > org.numcomps THEN [acc EXCEPT !.heap = h]
    ELSE IF NeedsUpsampling(org.comps[c]) /\ InvalidGeometry(org, c)
    THEN [acc EXCEPT !.heap = h, !.invalid = TRUE]
    ELSE LET src == h[org.comps[c].data].mem
             dst == h[new.comps[c].data].mem
             st  == IF NeedsUpsampling(org.comps[c])
                    THEN UpsamplePlane(dst, src, org.comps[c].w,
                                       new.comps[c].w, new.comps[c].h,
                                       org.comps[c].dx, org.comps[c].dy,
                                       XOff(org, c), YOff(org, c), junk)
                    ELSE CopyPlane([mem |-> dst, oobr |-> FALSE, oobw |-> FALSE],
                                   src, 0, org.comps[c].w * org.comps[c].h, junk)
         IN  FillComponents(org, new,
                [h EXCEPT ![new.comps[c].data].mem = st.mem], c + 1, junk,
                [acc EXCEPT !.oob_read = acc.oob_read \/ st.oobr,
                            !.oob_write = acc.oob_write \/ st.oobw])

\* the whole function; mallocOK and createOK tell whether the malloc of the
\* component parameters and opj_image_create succeed.  The result names the
\* returned image (0 is NULL), the images and the heap afterwards, and the
\* number of allocation calls made
upsample_image_components(is, h, orig, mallocOK, createOK, junk) ==
    LET org == is[orig]
        r0  == [result |-> orig, imgs |-> is, heap |-> h, allocs |-> 0,
                oob_read |-> FALSE, oob_write |-> FALSE]
    IN  IF ~(\E c \in 1..org.numcomps : NeedsUpsampling(org.comps[c]))
        THEN r0
        ELSE IF ~mallocOK
        THEN LET d == DestroyImage(is, h, orig)
             IN  [r0 EXCEPT !.result = 0, !.imgs = d.imgs, !.heap = d.heap,
                            !.allocs = 1]
        ELSE IF ~createOK
        THEN LET d == DestroyImage(is, h, orig)
             IN  [r0 EXCEPT !.result = 0, !.imgs = d.imgs, !.heap = d.heap,
                            !.allocs = 2]
        ELSE LET new == NewImage(org)
                 h1  == [b \in DOMAIN h |->
                            IF \E c \in 1..org.numcomps : b = UpBuf(c)
                            THEN LiveBuf([i \in 1..(new.comps[b - MaxComps - 3].w
                                           * new.comps[b - MaxComps - 3].h) |-> junk])
                            ELSE h[b]]
                 f   == FillComponents(org, new, h1, 1, junk,
                            [heap |-> h1, invalid |-> FALSE,
                             oob_read |-> FALSE, oob_write |-> FALSE])
                 is1 == [is EXCEPT ![3 - orig] = new]
                 d1  == DestroyImage(is1, f.heap, orig)
             IN  IF f.invalid
                 THEN LET d2 == DestroyImage(d1.imgs, d1.heap, 3 - orig)
                      IN  [result |-> 0, imgs |-> d2.imgs, heap |-> d2.heap,
                           allocs |-> 2,
                           oob_read |-> f.oob_read, oob_write |-> f.oob_write]
                 ELSE [result |-> 3 - orig, imgs |-> d1.imgs, heap |-> d1.heap,
                       allocs |-> 2,
                       oob_read |-> f.oob_read, oob_write |-> f.oob_write]

(***************************************************************************)
(* State.                                                                  *)
(***************************************************************************)
VARIABLES
    px,          \* the arguments and results of a lone sycc_to_rgb call
    call,        \* the arguments and results of a lone call of another function
    pc,          \* the stage Decode runs next
    stream,      \* Decode's stream: "NULL", "live" or "destroyed"
    codec,       \* Decode's codec: "NULL", "live" or "destroyed"
    image,       \* Decode's image pointer: 0 (NULL), 1 (codec's), 2 (upsampled)
    imgs,        \* the image objects
    heap,        \* the sample buffers
    returned,    \* what Decode returned, NotReturned before
    out,         \* the bytes written to the output
    trace        \* what the stages did, for the properties

vars == << px, call, pc, stream, codec, image, imgs, heap, returned, out, trace >>
decodeVars == << pc, stream, codec, image, imgs, heap, returned, out, trace >>

NotReturned == 0 - 1


\* no lone call
NoCall == [fn |-> "none"]

NoPixel == [prec |-> 0, y |-> 0, cb |-> 0, cr |-> 0,
            called |-> FALSE, r |-> 0, g |-> 0, b |-> 0]

NoTrace ==
    [handlers_set |-> FALSE,
     retagged |-> FALSE,
     color_called |-> FALSE, handler |-> "none",
     conv_aok |-> << TRUE, TRUE, TRUE >>, conv_failed |-> FALSE,
     before |-> NullImage, before_mem |-> << >>,
     ups_called |-> FALSE, ups_arg |-> 0, ups_result |-> 0, ups_allocs |-> 0,
     ups_before |-> NullImage, ups_before_mem |-> << >>,
     conv_oob_read |-> FALSE, ups_oob_read |-> FALSE, ups_oob_write |-> FALSE,
     pack_oob_read |-> FALSE,
     stream_destroys |-> 0, codec_destroys |-> 0]

IdleDecode ==
    /\ pc = "idle"
    /\ stream = "NULL"
    /\ codec = "NULL"
    /\ image = 0
    /\ imgs = [i \in 1..2 |-> NullImage]
    /\ heap = [b \in 1..NumBufs |-> NoBuf]
    /\ returned = NotReturned
    /\ out = << >>
    /\ trace = NoTrace

(***************************************************************************)
(* The pixel transform on its own: one call of sycc_to_rgb on arguments    *)
(* drawn from the bounded sample sets.                                     *)
(***************************************************************************)
InitPixel ==
    /\ IdleDecode
    /\ call = NoCall
    /\ \E prec \in 1..MaxPrec,
          y \in {MinSample, 0, 1, MaxSample \div 3, MaxSample \div 2,
                 MaxSample, MaxSample + 1},
          cb \in MinSample..MaxSample, cr \in MinSample..MaxSample :
        px = [prec |-> prec, y |-> y, cb |-> cb, cr |-> cr,
              called |-> FALSE, r |-> 0, g |-> 0, b |-> 0]

CallPixel ==
    /\ ~px.called
    /\ LET o == sycc_to_rgb(Offset(px.prec), Upb(px.prec), px.y, px.cb, px.cr)
       IN  px' = [px EXCEPT !.called = TRUE, !.r = o.r, !.g = o.g, !.b = o.b]
    /\ UNCHANGED decodeVars
    /\ UNCHANGED call

NextPixel == CallPixel

SpecPixel == InitPixel /\ [][NextPixel]_vars

(***************************************************************************)
(* Decode of decode.c, one action per stage.  The codec is external: each  *)
(* of its calls succeeds or fails, and the image it delivers is drawn from *)
(* the bounded sets above.                                                 *)
(***************************************************************************)
EXIT_SUCCESS == 0

Init ==
    /\ px = NoPixel
    /\ call = NoCall
    /\ pc = "set_handlers"
    /\ stream = "NULL"
    /\ codec = "NULL"
    /\ image = 0
    /\ imgs = [i \in 1..2 |-> NullImage]
    /\ heap = [b \in 1..NumBufs |-> NoBuf]
    /\ returned = NotReturned
    /\ out = << >>
    /\ trace = NoTrace

\* failure: and the tail of the success path: destroy the codec, the image
\* and the stream that are not NULL, and return
Leave(code, img, is, h, tr) ==
    LET d == IF img # 0 THEN DestroyImage(is, h, img) ELSE [imgs |-> is, heap |-> h]
    IN  /\ pc' = "done"
        /\ returned' = code
        /\ codec' = IF codec = "NULL" THEN codec ELSE "destroyed"
        /\ stream' = IF stream = "NULL" THEN stream ELSE "destroyed"
        /\ image' = img
        /\ imgs' = d.imgs
        /\ heap' = d.heap
        /\ trace' = [tr EXCEPT
               !.codec_destroys = tr.codec_destroys + (IF codec = "NULL" THEN 0 ELSE 1),
               !.stream_destroys = tr.stream_destroys + (IF stream = "NULL" THEN 0 ELSE 1)]

\* opj_set_info_handler(codec, ...) and the two others; they take effect on
\* a codec that exists
SetHandlers ==
    /\ pc = "set_handlers"
    /\ pc' = "stream_create"
    /\ trace' = [trace EXCEPT !.handlers_set = (codec # "NULL")]
    /\ UNCHANGED << px, call, stream, codec, image, imgs, heap, returned, out >>

StreamCreate ==
    /\ pc = "stream_create"
    /\ \E ok \in BOOLEAN :
        IF ok
        THEN /\ stream' = "live"
             /\ pc' = "create_codec"
             /\ UNCHANGED << codec, image, imgs, heap, returned, trace >>
        ELSE Leave(1, image, imgs, heap, trace)
    /\ UNCHANGED << px, call, out >>

\* codec = opj_create_decompress(codec_format), NULL for an unknown format
CreateCodec ==
    /\ pc = "create_codec"
    /\ \E ok \in BOOLEAN : codec' = IF ok THEN "live" ELSE "NULL"
    /\ pc' = "setup_decoder"
    /\ UNCHANGED << px, call, stream, image, imgs, heap, returned, out, trace >>

SetupDecoder ==
    /\ pc = "setup_decoder"
    /\ \E ok \in BOOLEAN :
        IF ok /\ codec # "NULL"
        THEN /\ pc' = "read_header"
             /\ UNCHANGED << stream, codec, image, imgs, heap, returned, trace >>
        ELSE Leave(2, image, imgs, heap, trace)
    /\ UNCHANGED << px, call, out >>

ReadHeader ==
    /\ pc = "read_header"
    /\ \/ Leave(3, image, imgs, heap, trace)
       \/ \E x0 \in 0..MaxOrigin, y0 \in 0..MaxOrigin, w \in 1..MaxW, h \in 1..MaxH,
             layout \in Layouts, cs \in ColorSpaces, prec \in ImagePrecs :
            /\ imgs' = [imgs EXCEPT ![1] = HeaderImage(x0, y0, w, h, layout, cs, prec)]
            /\ image' = 1
            /\ pc' = "set_decode_area"
            /\ UNCHANGED << stream, codec, heap, returned, trace >>
       \/ \E w \in 1..MaxDeepW, h \in 1..MaxDeepH, layout \in Layouts,
             cs \in ColorSpaces, f \in DeepFormats :
            /\ imgs' = [imgs EXCEPT ![1] =
                          WithSign(HeaderImage(0, 0, w, h, layout, cs, f[1]), f[2])]
            /\ image' = 1
            /\ pc' = "set_decode_area"
            /\ UNCHANGED << stream, codec, heap, returned, trace >>
    /\ UNCHANGED << px, call, out >>

\* parameters.numcomps is 0 after set_default_parameters, so
\* opj_set_decoded_components is not called; then opj_set_decode_area
SetDecodeArea ==
    /\ pc = "set_decode_area"
    /\ \E ok \in BOOLEAN :
        IF ok
        THEN /\ pc' = "decode"
             /\ UNCHANGED << stream, codec, image, imgs, heap, returned, trace >>
        ELSE Leave(5, image, imgs, heap, trace)
    /\ UNCHANGED << px, call, out >>

\* opj_decode && opj_end_decompress: the codec allocates and fills the planes
DecodeImage ==
    /\ pc = "decode"
    /\ \/ Leave(6, image, imgs, heap, trace)
       \/ \E pat \in {"ramp", "neutral"} :
            LET img == imgs[image]
            IN  /\ imgs' = [imgs EXCEPT ![image].comps =
                              [c \in 1..img.numcomps |->
                                  [img.comps[c] EXCEPT !.data = c]]]
                /\ heap' = [b \in DOMAIN heap |->
                              IF b <= img.numcomps
                              THEN LiveBuf([i \in 1..(img.comps[b].w * img.comps[b].h) |->
                                      DecodedSample(pat, img.comps[b], b - 1, i - 1)])
                              ELSE heap[b]]
                /\ pc' = "retag"
                /\ UNCHANGED << stream, codec, image, returned, trace >>
    /\ UNCHANGED << px, call, out >>

\* a test that re-tags whatever the number of components
RetagConditionAnyCount(img) ==
    /\ img.color_space # "OPJ_CLRSPC_SYCC"
    /\ img.comps[1].dx = img.comps[1].dy
    /\ img.numcomps >= 2
    /\ img.comps[2].dx # 1

\* the test that re-tags an image as sYCC
RetagCondition(img) ==
    /\ img.color_space # "OPJ_CLRSPC_SYCC"
    /\ img.numcomps = 3
    /\ img.comps[1].dx = img.comps[1].dy
    /\ img.comps[2].dx # 1

Retag ==
    /\ pc = "retag"
    /\ pc' = "color"
    /\ IF RetagCondition(imgs[image])
       THEN /\ imgs' = [imgs EXCEPT ![image].color_space = "OPJ_CLRSPC_SYCC"]
            /\ trace' = [trace EXCEPT !.retagged = TRUE]
       ELSE UNCHANGED << imgs, trace >>
    /\ UNCHANGED << px, call, stream, codec, image, heap, returned, out >>

PlanesOf(img, h) == [c \in 1..img.numcomps |-> h[img.comps[c].data].mem]

\* an access outside a buffer is undefined: the call may go on with what it
\* read, or the process may stop there
Crash ==
    /\ pc' = "crashed"
    /\ UNCHANGED << stream, codec, image, imgs, heap, returned, trace >>

\* what the three opj_image_data_alloc calls of a handler may return (TRUE
\* for a buffer, FALSE for NULL); the other branches allocate nothing
AllocOutcomes(img) ==
    IF HandlerOf(img) \in {"gray", "skip"}
    THEN {<< TRUE, TRUE, TRUE >>}
    ELSE [1..3 -> BOOLEAN]

\* if (image->color_space == OPJ_CLRSPC_SYCC) color_sycc_to_rgb(image);
Color ==
    /\ pc = "color"
    /\ IF imgs[image].color_space = "OPJ_CLRSPC_SYCC"
       THEN \E aok \in AllocOutcomes(imgs[image]), junk \in JunkValues :
            \E c \in {color_sycc_to_rgb(imgs[image], heap, aok, junk)} :
              LET hd == HandlerOf(imgs[image])
              IN  \/ /\ c.oob_read
                     /\ Crash
                  \/ /\ pc' = "upsample"
                     /\ imgs' = [imgs EXCEPT ![image] = c.img]
                     /\ heap' = c.heap
                     /\ trace' = [trace EXCEPT
                           !.color_called = TRUE,
                           !.handler = hd,
                           !.conv_aok = aok,
                           !.conv_failed = c.failed,
                           !.before = imgs[image],
                           !.before_mem = PlanesOf(imgs[image], heap),
                           !.conv_oob_read = c.oob_read]
                     /\ UNCHANGED << stream, codec, image, returned >>
       ELSE /\ pc' = "upsample"
            /\ UNCHANGED << stream, codec, image, imgs, heap, returned, trace >>
    /\ UNCHANGED << px, call, out >>

\* image = upsample_image_components(image); NULL gives return code 8
Upsample ==
    /\ pc = "upsample"
    /\ \E mallocOK \in BOOLEAN, createOK \in BOOLEAN, junk \in JunkValues :
      \E u \in {upsample_image_components(imgs, heap, image, mallocOK, createOK, junk)} :
        LET tr == [trace EXCEPT
                     !.ups_called = TRUE,
                     !.ups_arg = image,
                     !.ups_result = u.result,
                     !.ups_allocs = u.allocs,
                     !.ups_before = imgs[image],
                     !.ups_before_mem = PlanesOf(imgs[image], heap),
                     !.ups_oob_read = u.oob_read,
                     !.ups_oob_write = u.oob_write]
        IN  \/ /\ u.oob_read \/ u.oob_write
               /\ Crash
            \/ IF u.result = 0
               THEN Leave(8, 0, u.imgs, u.heap, tr)
               ELSE /\ image' = u.result
                    /\ imgs' = u.imgs
                    /\ heap' = u.heap
                    /\ trace' = tr
                    /\ pc' = "pack"
                    /\ UNCHANGED << stream, codec, returned >>
    /\ UNCHANGED << px, call, out >>

\* bytes per sample of the three packing loops, 0 above 32 bits
BytesFor(precision) ==
    IF precision <= 8 THEN 1
    ELSE IF precision <= 16 THEN 2
    ELSE IF precision <= 32 THEN 4
    ELSE 0

\* byte k of a sample, least significant first (two's complement)
ByteOf(v, k) == (v \div Pow2(8 * k)) % 256

\* a packing that writes one component after the other (planar)
PackedPlanar(img, h, nbytes, junk) ==
    LET width  == img.comps[1].w
        height == img.comps[1].h
        n      == img.numcomps
    IN  [i \in 1..(width * height * n * nbytes) |->
            LET k   == (i - 1) % nbytes
                s   == (i - 1) \div nbytes
                c   == (s \div (width * height)) + 1
                pos == s % (width * height)
            IN  ByteOf(ReadAt(h[img.comps[c].data].mem, pos, junk), k)]

\* the output of the packing loops: for row, col, component, byte
Packed(img, h, nbytes, junk) ==
    LET width  == img.comps[1].w
        height == img.comps[1].h
        n      == img.numcomps
    IN  [i \in 1..(width * height * n * nbytes) |->
            LET k   == (i - 1) % nbytes
                s   == (i - 1) \div nbytes
                c   == (s % n) + 1
                pos == s \div n
            IN  ByteOf(ReadAt(h[img.comps[c].data].mem, pos, junk), k)]

PackReadsOutside(img, h) ==
    \E c \in 1..img.numcomps :
        Len(h[img.comps[c].data].mem) < img.comps[1].w * img.comps[1].h

Pack ==
    /\ pc = "pack"
    /\ \E junk \in JunkValues :
        LET img == imgs[image]
            nb  == BytesFor(img.comps[1].prec)
            tr  == [trace EXCEPT
                      !.pack_oob_read = PackReadsOutside(img, heap)]
        IN  IF nb = 0
            THEN /\ Leave(7, image, imgs, heap, trace)
                 /\ out' = out
            ELSE \/ /\ PackReadsOutside(img, heap)
                    /\ Crash
                    /\ out' = out
                 \/ \* p_component = malloc(...) is NULL and is written to
                    /\ Crash
                    /\ out' = out
                 \/ /\ out' = Packed(img, heap, nb, junk)
                    /\ Leave(EXIT_SUCCESS, image, imgs, heap, tr)
    /\ UNCHANGED << px, call >>

Next ==
    \/ SetHandlers
    \/ StreamCreate
    \/ CreateCodec
    \/ SetupDecoder
    \/ ReadHeader
    \/ SetDecodeArea
    \/ DecodeImage
    \/ Retag
    \/ Color
    \/ Upsample
    \/ Pack

Spec == Init /\ [][Next]_vars

(***************************************************************************)
(* Claims about the colour conversion (checked under Spec).                *)
(***************************************************************************)
\* the state right after the colour stage called color_sycc_to_rgb
AfterColor == pc = "upsample" /\ trace.color_called

\* the image after the stage has the planes it had before, all still owned
SamePlanes(img, before_mem) ==
    /\ PlanesOf(img, heap) = before_mem
    /\ \A c \in 1..img.numcomps :
          heap[img.comps[c].data].st = "live" /\ heap[img.comps[c].data].frees = 0

NoHandlerBuffer == \A k \in 1..3 : heap[ConvBuf(k)] = NoBuf

IsNeutralImage(b, mem) ==
    /\ b.comps[1].prec <= 31
    /\ \A i \in 1..Len(mem[2]) : mem[2][i] = Pow2(b.comps[1].prec - 1)
    /\ \A i \in 1..Len(mem[3]) : mem[3][i] = Pow2(b.comps[1].prec - 1)
    /\ \A i \in 1..Len(mem[1]) : mem[1][i] \in 0..(Pow2(b.comps[1].prec) - 1)

\* C3: a 4:4:4 image, or a 4:2:0 image with even x0 and y0, whose chroma
\* samples all equal 2^(prec-1) and whose luma samples are in range, comes
\* out of a completed conversion with R = G = B = the luma plane.
C3_NeutralChromaIsGray ==
    (/\ AfterColor
     /\ ~trace.conv_failed
     /\ \/ trace.handler = "sycc444"
        \/ /\ trace.handler = "sycc420"
           /\ trace.before.x0 % 2 = 0
           /\ trace.before.y0 % 2 = 0
     /\ IsNeutralImage(trace.before, trace.before_mem))
    => \A c \in 1..3 :
          /\ Len(heap[imgs[image].comps[c].data].mem) = Len(trace.before_mem[1])
          /\ \A i \in 1..Len(trace.before_mem[1]) :
                heap[imgs[image].comps[c].data].mem[i] = trace.before_mem[1][i]

\* a completed 4:2:0 conversion of a neutral image at an even origin, with a
\* row pair and a trailing row, a column pair and a trailing column
C3_Witness ==
    /\ AfterColor
    /\ ~trace.conv_failed
    /\ trace.handler = "sycc420"
    /\ trace.before.x0 = 0
    /\ trace.before.y0 = 0
    /\ trace.before.comps[1].w = 3
    /\ trace.before.comps[1].h = 3
    /\ IsNeutralImage(trace.before, trace.before_mem)
    /\ heap[imgs[image].comps[3].data].mem[9] = 80

Is420(b) ==
    /\ b.numcomps >= 3
    /\ b.comps[1].dx = 1 /\ b.comps[1].dy = 1
    /\ b.comps[2].dx = 2 /\ b.comps[2].dy = 2
    /\ b.comps[3].dx = 2 /\ b.comps[3].dy = 2

Is422(b) ==
    /\ b.numcomps >= 3
    /\ b.comps[1].dx = 1 /\ b.comps[1].dy = 1
    /\ b.comps[2].dx = 2 /\ b.comps[2].dy = 1
    /\ b.comps[3].dx = 2 /\ b.comps[3].dy = 1

Is444(b) ==
    /\ b.numcomps >= 3
    /\ \A c \in 1..3 : b.comps[c].dx = 1 /\ b.comps[c].dy = 1

\* C4: color_sycc_to_rgb sets grayscale and nothing else below three
\* components, runs the handler of the layout for the three known layouts,
\* and for every other combination leaves tag, geometry and samples alone.
C4_Dispatch ==
    AfterColor =>
        LET b == trace.before
        IN  /\ b.numcomps < 3 =>
                /\ trace.handler = "gray"
                /\ imgs[image] = [b EXCEPT !.color_space = "OPJ_CLRSPC_GRAY"]
                /\ SamePlanes(imgs[image], trace.before_mem)
                /\ NoHandlerBuffer
            /\ Is420(b) => trace.handler = "sycc420"
            /\ Is422(b) => trace.handler = "sycc422"
            /\ Is444(b) => trace.handler = "sycc444"
            /\ (b.numcomps >= 3 /\ ~Is420(b) /\ ~Is422(b) /\ ~Is444(b)) =>
                /\ trace.handler = "skip"
                /\ imgs[image] = b
                /\ SamePlanes(imgs[image], trace.before_mem)
                /\ NoHandlerBuffer
            /\ trace.handler \in {"sycc420", "sycc422", "sycc444"} =>
                (trace.conv_failed \/ imgs[image].color_space = "OPJ_CLRSPC_SRGB")

\* a three-component image whose third component spoils the 4:2:2 layout
C4_Witness ==
    /\ AfterColor
    /\ trace.before.numcomps = 3
    /\ trace.before.comps[2].dx = 2 /\ trace.before.comps[2].dy = 1
    /\ trace.before.comps[3].dx = 2 /\ trace.before.comps[3].dy = 2
    /\ trace.handler = "skip"
    /\ imgs[image].color_space = "OPJ_CLRSPC_SYCC"

\* C9: when an allocation of a handler fails, each destination buffer that
\* was allocated is freed exactly once and the image is as it was: same data
\* pointers and contents, same w, h, dx, dy, same colour space.
C9_AllocFailureLeavesImage ==
    (AfterColor /\ trace.conv_failed) =>
        /\ trace.handler \in {"sycc420", "sycc422", "sycc444"}
        /\ \A k \in 1..3 :
              IF trace.conv_aok[k]
              THEN heap[ConvBuf(k)].st = "freed" /\ heap[ConvBuf(k)].frees = 1
              ELSE heap[ConvBuf(k)] = NoBuf
        /\ imgs[image] = trace.before
        /\ SamePlanes(imgs[image], trace.before_mem)

\* the 4:2:2 handler after its second allocation failed
C9_Witness ==
    /\ AfterColor
    /\ trace.conv_failed
    /\ trace.handler = "sycc422"
    /\ trace.conv_aok = << TRUE, FALSE, TRUE >>
    /\ heap[ConvBuf(1)].frees = 1
    /\ heap[ConvBuf(3)].frees = 1

\* C10: an allocation failure in the converter reaches the caller: Decode
\* does not return 0 after it.
C10_FailureReachesCaller ==
    (pc = "done" /\ trace.conv_failed) => returned # EXIT_SUCCESS

(***************************************************************************)
(* Claims about the upsampler (checked under Spec).                        *)
(***************************************************************************)
\* the state right after upsample_image_components returned an image
AfterUpsample == pc = "pack" /\ trace.ups_called

AllUnit(b) == \A c \in 1..b.numcomps : b.comps[c].dx = 1 /\ b.comps[c].dy = 1

\* C5: when every component has dx = dy = 1 the very same image comes back,
\* with every field and buffer unchanged, nothing allocated and nothing
\* destroyed.
C5_UpsampleIdentity ==
    (trace.ups_called /\ AllUnit(trace.ups_before)) =>
        /\ trace.ups_result = trace.ups_arg
        /\ trace.ups_allocs = 0
        /\ pc = "pack" =>
            /\ image = trace.ups_arg
            /\ imgs[image] = trace.ups_before
            /\ imgs[image].destroys = 0
            /\ SamePlanes(imgs[image], trace.ups_before_mem)
            /\ imgs[3 - image] = NullImage
            /\ \A c \in 1..MaxComps : heap[UpBuf(c)] = NoBuf

\* an image converted to RGB by the 4:2:0 handler passes the upsampler as is
C5_Witness ==
    /\ AfterUpsample
    /\ AllUnit(trace.ups_before)
    /\ trace.handler = "sycc420"
    /\ ~trace.conv_failed
    /\ trace.ups_before.numcomps = 4
    /\ image = 1

\* the offsets of the claims, from the fields of the component and the image
RefXOff(b, c) == b.comps[c].dx * b.comps[c].x0 - b.x0
RefYOff(b, c) == b.comps[c].dy * b.comps[c].y0 - b.y0

\* the value the claim gives to destination position (r, col) of component c
RefUpsampled(b, mem, c, r, col) ==
    IF r < RefYOff(b, c) \/ col < RefXOff(b, c) THEN 0
    ELSE mem[c][((r - RefYOff(b, c)) \div b.comps[c].dy) * b.comps[c].w
                + ((col - RefXOff(b, c)) \div b.comps[c].dx) + 1]

\* C6: after an upsampling whose accesses all stayed inside their buffers,
\* an upsampled plane is 0 above row yoff and left of column xoff and
\* elsewhere holds source sample ((r - yoff) div dy, (c - xoff) div dx);
\* a component with dx = dy = 1 is copied sample for sample.
C6_NearestNeighbour ==
    (/\ AfterUpsample
     /\ trace.ups_result # trace.ups_arg
     /\ ~trace.ups_oob_read
     /\ ~trace.ups_oob_write) =>
        LET b == trace.ups_before
            W == b.x1 - b.x0
            H == b.y1 - b.y0
        IN  \A c \in 1..b.numcomps :
                LET new == heap[imgs[image].comps[c].data].mem
                IN  IF b.comps[c].dx > 1 \/ b.comps[c].dy > 1
                    THEN /\ Len(new) = W * H
                         /\ \A r \in 0..(H - 1), col \in 0..(W - 1) :
                              /\ (r >= RefYOff(b, c) /\ col >= RefXOff(b, c)) =>
                                   /\ (r - RefYOff(b, c)) \div b.comps[c].dy < b.comps[c].h
                                   /\ (col - RefXOff(b, c)) \div b.comps[c].dx < b.comps[c].w
                              /\ new[r * W + col + 1]
                                   = RefUpsampled(b, trace.ups_before_mem, c, r, col)
                    ELSE new = trace.ups_before_mem[c]

\* the example of the claim: a 2x2 plane with dx = dy = 2 and zero offsets
\* becomes four constant 2x2 blocks of a 4x4 plane
C6_Witness ==
    /\ AfterUpsample
    /\ trace.ups_result # trace.ups_arg
    /\ trace.ups_before.numcomps = 4
    /\ trace.ups_before.comps[4].dx = 2
    /\ trace.ups_before.comps[4].dy = 2
    /\ trace.ups_before.x0 = 0
    /\ trace.ups_before.y0 = 0
    /\ trace.ups_before_mem[4] = << 100, 101, 102, 103 >>
    /\ heap[imgs[image].comps[4].data].mem =
         << 100, 100, 101, 101, 100, 100, 101, 101,
            102, 102, 103, 103, 102, 102, 103, 103 >>

\* C7: after a successful upsampling every component has dx = dy = 1 and a
\* buffer of (x1 - x0) * (y1 - y0) samples; x0, y0, x1, y1, the colour space
\* and each component's prec, sgnd and alpha are those of the input.
C7_UpsampledGeometry ==
    (AfterUpsample /\ trace.ups_result # trace.ups_arg) =>
        LET b == trace.ups_before
            a == imgs[image]
        IN  /\ a.exists
            /\ a.numcomps = b.numcomps
            /\ a.x0 = b.x0 /\ a.y0 = b.y0 /\ a.x1 = b.x1 /\ a.y1 = b.y1
            /\ a.color_space = b.color_space
            /\ \A c \in 1..a.numcomps :
                  /\ a.comps[c].dx = 1
                  /\ a.comps[c].dy = 1
                  /\ a.comps[c].w = b.x1 - b.x0
                  /\ a.comps[c].h = b.y1 - b.y0
                  /\ heap[a.comps[c].data].st = "live"
                  /\ Len(heap[a.comps[c].data].mem) = (b.x1 - b.x0) * (b.y1 - b.y0)
                  /\ a.comps[c].prec = b.comps[c].prec
                  /\ a.comps[c].sgnd = b.comps[c].sgnd
                  /\ a.comps[c].alpha = b.comps[c].alpha

\* an upsampled image with an alpha component, at an odd origin
C7_Witness ==
    /\ AfterUpsample
    /\ trace.ups_result = 2
    /\ trace.ups_arg = 1
    /\ trace.ups_before.numcomps = 4
    /\ trace.ups_before.comps[4].dx = 2
    /\ trace.ups_before.comps[4].alpha = 1
    /\ trace.ups_before.x0 = 1
    /\ trace.ups_before.color_space = "OPJ_CLRSPC_SRGB"
    /\ imgs[2].comps[4].w = 3
    /\ imgs[2].comps[4].alpha = 1

\* a component that needs upsampling and whose offset is not below its factor
RefInvalid(b) ==
    \E c \in 1..b.numcomps :
        /\ b.comps[c].dx > 1 \/ b.comps[c].dy > 1
        /\ \/ RefXOff(b, c) < 0 \/ RefXOff(b, c) >= b.comps[c].dx
           \/ RefYOff(b, c) < 0 \/ RefYOff(b, c) >= b.comps[c].dy

\* C8: an upsampling that meets an invalid component fails; when the
\* upsampling fails the original image has been destroyed once, a new image
\* that was built has been destroyed once, NULL is returned and Decode
\* returns 8 with no image left to destroy or read.
C8_UpsampleFailure ==
    /\ (trace.ups_called /\ RefInvalid(trace.ups_before)) => trace.ups_result = 0
    /\ (trace.ups_called /\ trace.ups_result = 0) =>
          /\ ~AllUnit(trace.ups_before)
          /\ pc = "done"
          /\ returned = 8
          /\ image = 0
          /\ out = << >>
          /\ imgs[trace.ups_arg].destroys = 1
          /\ imgs[3 - trace.ups_arg].destroys
               = (IF imgs[3 - trace.ups_arg] = NullImage THEN 0 ELSE 1)
          /\ \A i \in 1..2 : ~imgs[i].exists
          /\ \A b \in DOMAIN heap :
                heap[b].st # "live" /\ (heap[b].st = "freed" => heap[b].frees = 1)

\* Decode returned 8 after the upsampler met a component with xoff >= dx
\* and destroyed both the original and the new image
C8_Witness ==
    /\ pc = "done"
    /\ returned = 8
    /\ trace.ups_called
    /\ RefInvalid(trace.ups_before)
    /\ imgs[1].destroys = 1
    /\ imgs[2].destroys = 1
    /\ heap[UpBuf(1)].frees = 1

(***************************************************************************)
(* Claims about the pixel transform (checked under SpecPixel).             *)
(***************************************************************************)
\* the reference of the claims, stated by what a truncated quotient and a
\* saturated value are, in exact integer arithmetic on thousandths
IsTrunc(t, n, d) ==
    /\ Abs(t) * d <= Abs(n)
    /\ Abs(n) < (Abs(t) + 1) * d
    /\ t * n >= 0

TruncQuot(n, d) ==
    CHOOSE t \in (0 - (Abs(n) \div d) - 1)..((Abs(n) \div d) + 1) : IsTrunc(t, n, d)

IsSat(s, v, upb) ==
    /\ s \in 0..upb
    /\ (v \in 0..upb => s = v)
    /\ (v < 0 => s = 0)
    /\ (v > upb => s = upb)

Sat(v, upb) == CHOOSE s \in 0..upb : IsSat(s, v, upb)

PxCb == px.cb - Offset(px.prec)
PxCr == px.cr - Offset(px.prec)
PxGMilli == 344 * PxCb + 714 * PxCr
PxRefR == Sat(px.y + TruncQuot(1402 * PxCr, 1000), Upb(px.prec))
PxRefG == Sat(px.y - TruncQuot(PxGMilli, 1000), Upb(px.prec))
PxRefB == Sat(px.y + TruncQuot(1772 * PxCb, 1000), Upb(px.prec))
\* the integer next to the exact quotient, toward zero
PxNearerG ==
    LET t == TruncQuot(PxGMilli, 1000)
    IN  Sat(px.y - (IF t > 0 THEN t - 1 ELSE IF t < 0 THEN t + 1 ELSE 0),
            Upb(px.prec))

\* C1: every output of sycc_to_rgb, called with offset = 2^(prec-1) and
\* upb = 2^prec - 1, lies in [0, 2^prec - 1].
C1_OutputsInRange ==
    px.called => /\ px.r \in 0..Upb(px.prec)
                 /\ px.g \in 0..Upb(px.prec)
                 /\ px.b \in 0..Upb(px.prec)

\* a call whose red value exceeded upb and was saturated to upb, and whose
\* blue value was negative and was saturated to 0
C1_Witness ==
    /\ px.called
    /\ px.y + TruncQuot(1402 * PxCr, 1000) > Upb(px.prec)
    /\ px.r = Upb(px.prec)
    /\ px.y + TruncQuot(1772 * PxCb, 1000) < 0
    /\ px.b = 0

SmallDest(b, c) ==
    /\ b.comps[c].dx > 1 \/ b.comps[c].dy > 1
    /\ \/ (IF b.comps[c].dx > 1 THEN b.x1 - b.x0 ELSE b.comps[c].w)
            <= b.comps[c].dx - 1
       \/ (IF b.comps[c].dy > 1 THEN b.y1 - b.y0 ELSE b.comps[c].h)
            <= b.comps[c].dy - 1

\* the fill of the destination plane of component c of image b, whose
\* planes held mem
FillOf(b, mem, c) ==
    LET p == NewCmptParm(b, c)
    IN  UpsamplePlane([i \in 1..(p.w * p.h) |-> 0], mem[c], b.comps[c].w,
                      p.w, p.h, b.comps[c].dx, b.comps[c].dy,
                      XOff(b, c), YOff(b, c), 0)

\* C11: the fill of a destination plane narrower than dx or lower than dy
\* reads only inside the source plane and writes only inside the
\* destination plane.
C11_SmallPlaneInBounds ==
    (AfterUpsample /\ trace.ups_result # trace.ups_arg) =>
        \A c \in 1..trace.ups_before.numcomps :
            SmallDest(trace.ups_before, c) =>
                /\ ~FillOf(trace.ups_before, trace.ups_before_mem, c).oobr
                /\ ~FillOf(trace.ups_before, trace.ups_before_mem, c).oobw

\* the part of C11 that the guards do secure: a small destination that is
\* at least xoff wide and yoff high is filled inside the buffers
C11_GuardedWhenOffsetsFit ==
    (AfterUpsample /\ trace.ups_result # trace.ups_arg) =>
        \A c \in 1..trace.ups_before.numcomps :
            (/\ SmallDest(trace.ups_before, c)
             /\ XOff(trace.ups_before, c) <= trace.ups_before.x1 - trace.ups_before.x0
             /\ YOff(trace.ups_before, c) <= trace.ups_before.y1 - trace.ups_before.y0) =>
                /\ ~FillOf(trace.ups_before, trace.ups_before_mem, c).oobr
                /\ ~FillOf(trace.ups_before, trace.ups_before_mem, c).oobw

(***************************************************************************)
(* Claims about the packed output and the stages of Decode (checked under  *)
(* Spec).                                                                  *)
(***************************************************************************)
\* Decode returned 0
Succeeded == pc = "done" /\ returned = 0

\* the bytes per sample the claim gives to a precision
RefBytes(precision) ==
    IF precision <= 8 THEN 1 ELSE IF precision <= 16 THEN 2 ELSE 4

\* bytes lo, hi are the 16-bit value v, least significant first
IsLittleEndian16(lo, hi, v) ==
    /\ lo \in 0..255
    /\ hi \in 0..255
    /\ lo + 256 * hi = v

\* the B bytes of out from offset off on are sample v reduced modulo
\* 2^(8*B), least significant byte first
HoldsSample(off, B, v) ==
    IF B = 1 THEN out[off + 1] \in 0..255 /\ out[off + 1] = v % 256
    ELSE IF B = 2 THEN IsLittleEndian16(out[off + 1], out[off + 2], v % 65536)
    ELSE /\ IsLittleEndian16(out[off + 1], out[off + 2], v % 65536)
         /\ IsLittleEndian16(out[off + 3], out[off + 4], (v \div 65536) % 65536)

\* C12: on success the output holds W * H * N * B bytes, and the sample of
\* component i at (row, col) is the B bytes at ((row * W + col) * N + i) * B,
\* least significant first, reduced modulo 2^(8 * B).
C12_PackedLayout ==
    Succeeded =>
        LET img == imgs[image]
            N   == img.numcomps
            W   == img.comps[1].w
            H   == img.comps[1].h
            B   == RefBytes(img.comps[1].prec)
        IN  /\ img.comps[1].prec <= 32
            /\ Len(out) = W * H * N * B
            /\ \A row \in 0..(H - 1), col \in 0..(W - 1), i \in 0..(N - 1) :
                  /\ row * W + col < Len(heap[img.comps[i + 1].data].mem)
                  /\ HoldsSample(((row * W + col) * N + i) * B, B,
                        heap[img.comps[i + 1].data].mem[row * W + col + 1])

\* a signed 12-bit image of three components and 2 x 2 pixels, packed into
\* 24 bytes, with a negative sample
C12_Witness ==
    /\ Succeeded
    /\ imgs[image].numcomps = 3
    /\ imgs[image].comps[1].prec = 12
    /\ imgs[image].comps[1].sgnd = 1
    /\ imgs[image].comps[1].w = 2
    /\ imgs[image].comps[1].h = 2
    /\ Len(out) = 24
    /\ \E i \in 1..4 : heap[imgs[image].comps[1].data].mem[i] < 0

\* nothing of the stages after the decode has happened
NoLaterStage == ~trace.color_called /\ ~trace.ups_called /\ out = << >>

\* the stream, the codec, each image and each buffer were released at most
\* once
ReleasedAtMostOnce ==
    /\ trace.stream_destroys <= 1
    /\ trace.codec_destroys <= 1
    /\ \A i \in 1..2 : imgs[i].destroys <= 1
    /\ \A b \in 1..NumBufs : heap[b].frees <= 1

\* what each nonzero return code tells about the stages that ran
FailedAtStage ==
    /\ returned \in {NotReturned, 0, 1, 2, 3, 4, 5, 6, 7, 8}
    /\ returned = 1 => stream = "NULL" /\ codec = "NULL" /\ image = 0 /\ NoLaterStage
    /\ returned = 2 => stream = "destroyed" /\ image = 0 /\ NoLaterStage
    /\ returned = 3 => stream = "destroyed" /\ codec = "destroyed" /\ image = 0
                       /\ NoLaterStage
    /\ returned \in {4, 5} =>
          /\ image = 1
          /\ imgs[1].destroys = 1
          /\ \A c \in 1..imgs[1].numcomps : imgs[1].comps[c].data = 0
          /\ NoLaterStage
    /\ returned = 6 => image = 1 /\ imgs[1].destroys = 1 /\ NoLaterStage
    /\ returned = 8 => trace.ups_called /\ trace.ups_result = 0 /\ image = 0
                       /\ out = << >>
    /\ returned = 7 => /\ trace.ups_called
                       /\ trace.ups_result # 0
                       /\ imgs[image].comps[1].prec > 32
                       /\ out = << >>

\* what the stages left behind when Decode returned 0: the stream and the
\* codec were created, the upsampler saw the image the colour stage left
\* and returned the image that was packed
SucceededStages ==
    /\ stream = "destroyed"
    /\ codec = "destroyed"
    /\ trace.ups_called
    /\ trace.ups_result = image
    /\ image # 0
    /\ imgs[image].destroys = 1
    /\ imgs[image].comps[1].prec <= 32
    /\ Len(out) > 0
    /\ (trace.color_called /\ trace.handler = "gray") =>
          trace.ups_before.color_space = "OPJ_CLRSPC_GRAY"
    /\ (/\ trace.color_called
        /\ trace.handler \in {"sycc444", "sycc422", "sycc420"}
        /\ ~trace.conv_failed) =>
          trace.ups_before.color_space = "OPJ_CLRSPC_SRGB"

\* the part of C13 that holds: the return code names the first stage that
\* failed, no later stage has run, and nothing was released twice
C13_CodesAndCleanup ==
    pc = "done" =>
        /\ FailedAtStage
        /\ ReleasedAtMostOnce
        /\ returned = 0 => SucceededStages

\* C13: Decode returns 0 only if every stage succeeded, the colour
\* conversion included; otherwise it returns the code of the first stage
\* that failed, no later stage has run, and the stream, the codec and the
\* image were destroyed at most once.
C13_StagesAndCodes ==
    pc = "done" =>
        /\ FailedAtStage
        /\ ReleasedAtMostOnce
        /\ returned = 0 => SucceededStages /\ ~trace.conv_failed

(***************************************************************************)
(* py_read of utils.c, the read callback of the input stream, as a lone    *)
(* call.  res is what fd.read(nr_bytes) gave: a bytes object with its      *)
(* data, another object, or NULL when the method raised.                   *)
(***************************************************************************)
MaxRead == 3


\* (OPJ_SIZE_T)-1, the all-ones value of the unsigned type
SIZE_T_MINUS_ONE == 0 - 1

\* the outcome of a call that went to error: or found nothing to read
ReadNothing(dest) ==
    [status |-> "returned", ret |-> SIZE_T_MINUS_ONE, dest |-> dest,
     copied |-> 0, decrefs |-> 1]

\* memcpy(destination, buffer, len_size_t)
CopiedInto(dest, data) ==
    [i \in 1..Len(dest) |-> IF i <= Len(data) THEN data[i] ELSE dest[i]]

\* a py_read without the test length > nr_bytes
py_read_NoLengthCheck(dest, nr_bytes, res) ==
    IF res.kind # "bytes" THEN ReadNothing(dest)
    ELSE [status |-> "returned",
          ret |-> IF Len(res.data) = 0 THEN SIZE_T_MINUS_ONE ELSE Len(res.data),
          dest |-> CopiedInto(dest, res.data),
          copied |-> Len(res.data), decrefs |-> 1]

py_read(dest, nr_bytes, res) ==
    IF res.kind = "NULL"
    THEN \* PyBytes_AsStringAndSize and Py_DECREF are handed a NULL object
         [status |-> "crashed", ret |-> 0, dest |-> dest, copied |-> 0,
          decrefs |-> 0]
    ELSE IF res.kind # "bytes" THEN ReadNothing(dest)
    ELSE IF Len(res.data) > nr_bytes THEN ReadNothing(dest)
    ELSE [status |-> "returned",
          ret |-> IF Len(res.data) = 0 THEN SIZE_T_MINUS_ONE ELSE Len(res.data),
          dest |-> CopiedInto(dest, res.data),
          copied |-> Len(res.data), decrefs |-> 1]

InitRead ==
    /\ IdleDecode
    /\ px = NoPixel
    /\ \E n \in 0..MaxRead,
          res \in {[kind |-> "bytes", data |-> d] :
                      d \in UNION {[1..k -> {0, 65}] : k \in 0..(MaxRead + 1)}}
                    \cup {[kind |-> "other", data |-> << >>],
                          [kind |-> "NULL", data |-> << >>]} :
        call = [fn |-> "py_read", nr_bytes |-> n, res |-> res,
                before |-> [i \in 1..n |-> 255],
                called |-> FALSE, status |-> "ready", ret |-> 0,
                dest |-> [i \in 1..n |-> 255], copied |-> 0, decrefs |-> 0]

CallRead ==
    /\ call.fn = "py_read"
    /\ ~call.called
    /\ \E o \in {py_read(call.dest, call.nr_bytes, call.res)} :
        call' = [call EXCEPT !.called = TRUE, !.status = o.status, !.ret = o.ret,
                             !.dest = o.dest, !.copied = o.copied,
                             !.decrefs = o.decrefs]
    /\ UNCHANGED px
    /\ UNCHANGED decodeVars

NextRead == CallRead

SpecRead == InitRead /\ [][NextRead]_vars

(***************************************************************************)
(* Claims about py_read (checked under SpecRead).                          *)
(***************************************************************************)
\* C14: a read of 1 to nr_bytes bytes returns their number, with the bytes
\* copied to the front of destination; a read of no byte, of more than
\* nr_bytes bytes or of something that is not a bytes object returns
\* (OPJ_SIZE_T)-1; never more than nr_bytes bytes are copied.
C14_ReadResult ==
    (call.fn = "py_read" /\ call.called /\ call.res.kind # "NULL") =>
        LET n == Len(call.res.data)
        IN  /\ call.status = "returned"
            /\ call.copied <= call.nr_bytes
            /\ Len(call.dest) = call.nr_bytes
            /\ (call.res.kind = "bytes" /\ n >= 1 /\ n <= call.nr_bytes) =>
                  /\ call.ret = n
                  /\ call.copied = n
                  /\ \A i \in 1..n : call.dest[i] = call.res.data[i]
                  /\ \A i \in (n + 1)..call.nr_bytes : call.dest[i] = call.before[i]
            /\ (call.res.kind # "bytes" \/ n = 0 \/ n > call.nr_bytes) =>
                  /\ call.ret = 0 - 1
                  /\ call.dest = call.before

\* a short read of two bytes, one of them 0, into a buffer of three
C14_Witness ==
    /\ call.fn = "py_read"
    /\ call.called
    /\ call.nr_bytes = 3
    /\ call.res = [kind |-> "bytes", data |-> << 65, 0 >>]
    /\ call.ret = 2
    /\ call.dest = << 65, 0, 255 >>

(***************************************************************************)
(* GetParameters of decode.c as a lone call.  hdr is the image             *)
(* opj_read_header builds, or NullImage when it fails; output is the       *)
(* caller's j2k_parameters_t.                                              *)
(***************************************************************************)
\* the caller's struct before the call
BlankParameters ==
    [colourspace |-> "unset", columns |-> 0 - 1, rows |-> 0 - 1,
     nr_components |-> 0 - 1, precision |-> 0 - 1, is_signed |-> 0 - 1,
     nr_tiles |-> 0 - 1]

\* output->... = ..., the assignments after a successful opj_read_header;
\* parameters.nb_tile_to_decode is 0 after set_default_parameters
StoreParameters(hdr) ==
    [colourspace |-> hdr.color_space, columns |-> hdr.x1, rows |-> hdr.y1,
     nr_components |-> hdr.numcomps, precision |-> hdr.comps[1].prec,
     is_signed |-> hdr.comps[1].sgnd, nr_tiles |-> 0]


GetParameters(output, streamOK, codecOK, setupOK, hdr) ==
    IF ~streamOK
    THEN [ret |-> 1, output |-> output, stream_destroys |-> 0,
          codec_destroys |-> 0, image_destroys |-> 0]
    ELSE IF ~(codecOK /\ setupOK)
    THEN [ret |-> 2, output |-> output, stream_destroys |-> 1,
          codec_destroys |-> IF codecOK THEN 1 ELSE 0, image_destroys |-> 0]
    ELSE IF ~hdr.exists
    THEN [ret |-> 3, output |-> output, stream_destroys |-> 1,
          codec_destroys |-> 1, image_destroys |-> 0]
    ELSE [ret |-> EXIT_SUCCESS, output |-> StoreParameters(hdr),
          stream_destroys |-> 1, codec_destroys |-> 1, image_destroys |-> 1]

InitParams ==
    /\ IdleDecode
    /\ px = NoPixel
    /\ \E streamOK \in BOOLEAN, codecOK \in BOOLEAN, setupOK \in BOOLEAN,
          hdr \in {HeaderImage(x0, y0, w, h, layout, cs, prec) :
                      x0 \in 0..MaxOrigin, y0 \in 0..MaxOrigin,
                      w \in 1..MaxW, h \in 1..MaxH,
                      layout \in {l \in Layouts : Len(l) <= 3},
                      cs \in {"OPJ_CLRSPC_SRGB", "OPJ_CLRSPC_SYCC"},
                      prec \in ImagePrecs}
                  \cup {WithSign(HeaderImage(0, 0, 1, 1, << Cmp(1, 1) >>,
                                             "OPJ_CLRSPC_GRAY", f[1]), f[2]) :
                          f \in DeepFormats}
                  \cup {NullImage} :
        call = [fn |-> "GetParameters", streamOK |-> streamOK,
                codecOK |-> codecOK, setupOK |-> setupOK, hdr |-> hdr,
                called |-> FALSE, ret |-> NotReturned,
                output |-> BlankParameters, stream_destroys |-> 0,
                codec_destroys |-> 0, image_destroys |-> 0]

CallParams ==
    /\ call.fn = "GetParameters"
    /\ ~call.called
    /\ \E o \in {GetParameters(call.output, call.streamOK, call.codecOK,
                              call.setupOK, call.hdr)} :
        call' = [call EXCEPT !.called = TRUE, !.ret = o.ret,
                             !.output = o.output,
                             !.stream_destroys = o.stream_destroys,
                             !.codec_destroys = o.codec_destroys,
                             !.image_destroys = o.image_destroys]
    /\ UNCHANGED px
    /\ UNCHANGED decodeVars

NextParams == CallParams

SpecParams == InitParams /\ [][NextParams]_vars

(***************************************************************************)
(* Claims about GetParameters (checked under SpecParams).                  *)
(***************************************************************************)
ParamsSucceeded ==
    call.fn = "GetParameters" /\ call.called /\ call.ret = EXIT_SUCCESS

\* C15: after a successful GetParameters, output.columns and output.rows
\* are the width x1 - x0 and the height y1 - y0 of the image, whatever its
\* origin.
C15_ColumnsRowsAreExtent ==
    ParamsSucceeded =>
        /\ call.output.columns = call.hdr.x1 - call.hdr.x0
        /\ call.output.rows = call.hdr.y1 - call.hdr.y0

\* what the call does store: the lower right corner of the image area, the
\* other fields as the header has them, and nothing when it fails
C15_StoresCorner ==
    (call.fn = "GetParameters" /\ call.called) =>
        /\ call.ret = EXIT_SUCCESS =>
              /\ call.output.columns = call.hdr.x1
              /\ call.output.rows = call.hdr.y1
              /\ call.output.nr_components = call.hdr.numcomps
              /\ call.output.colourspace = call.hdr.color_space
              /\ call.output.precision = call.hdr.comps[1].prec
              /\ call.output.is_signed = call.hdr.comps[1].sgnd
        /\ call.ret # EXIT_SUCCESS => call.output = BlankParameters
        /\ call.ret \in {EXIT_SUCCESS, 1, 2, 3}

\* a successful call on an image whose origin is not (0, 0)
C15_Witness ==
    /\ ParamsSucceeded
    /\ call.hdr.x0 = 1
    /\ call.hdr.y0 = 1
    /\ call.hdr.x1 = 3
    /\ call.output.columns = 3

(***************************************************************************)
(* Claims about the walks of the subsampled handlers (checked under Spec). *)
(***************************************************************************)
Converted(hd) == AfterColor /\ ~trace.conv_failed /\ trace.handler = hd

\* the pixel the handler left at index i (from 0) of the three new planes
OutPixel(i) ==
    [r |-> heap[imgs[image].comps[1].data].mem[i + 1],
     g |-> heap[imgs[image].comps[2].data].mem[i + 1],
     b |-> heap[imgs[image].comps[3].data].mem[i + 1]]

\* the precisions for which 1 << (prec - 1) and 1 << prec are defined, so
\* that offset and upb are 2^(prec-1) and 2^prec - 1
ShiftsDefined(b) == b.comps[1].prec <= 30

\* sycc_to_rgb on luma index yi and chroma index ci of the planes the
\* handler was given; ci = NoChroma stands for the arguments 0, 0
RefPixel(b, mem, yi, ci) ==
    sycc_to_rgb(Offset(b.comps[1].prec), Upb(b.comps[1].prec), mem[1][yi + 1],
                IF ci = NoChroma THEN 0 ELSE mem[2][ci + 1],
                IF ci = NoChroma THEN 0 ELSE mem[3][ci + 1])

\* the chroma index the 4:2:2 policy gives the pixel at (row, c): none in
\* the boundary column, otherwise (c - offx) div 2 of the row's chroma row
RefChroma422(b, row, c) ==
    LET offx == b.x0 % 2
    IN  IF offx = 1 /\ c = 0 THEN NoChroma
        ELSE row * b.comps[2].w + ((c - offx) \div 2)

\* C16: sycc422_to_rgb computes the pixel at (row, c) from luma (row, c) and
\* from the arguments 0, 0 when x0 is odd and c = 0, otherwise from the
\* chroma sample (c - offx) div 2 of the same chroma row; a luma row
\* consumes ceil((w - offx) / 2) chroma samples, the boundary column none.
C16_Chroma422 ==
    Converted("sycc422") =>
        LET b    == trace.before
            w    == b.comps[1].w
            h    == b.comps[1].h
            offx == b.x0 % 2
            per  == CeilDiv(w - offx, 2)
            ops  == Walk422(w, h, b.x0)
        IN  /\ Len(ops) = w * h
            /\ \A row \in 0..(h - 1) : \A c \in 0..(w - 1) :
                  /\ ops[row * w + c + 1].y = row * w + c
                  /\ ops[row * w + c + 1].c =
                        (IF offx = 1 /\ c = 0 THEN NoChroma
                         ELSE row * per + ((c - offx) \div 2))
                  /\ ops[row * w + c + 1].c = RefChroma422(b, row, c)
                  /\ ShiftsDefined(b) =>
                        OutPixel(row * w + c) =
                            RefPixel(b, trace.before_mem, row * w + c,
                                     RefChroma422(b, row, c))

\* a 4:2:2 image of two rows at an odd x0, four columns wide: the boundary
\* column, one pair and a trailing column, with chroma that differs from
\* sample to sample
C16_Witness ==
    /\ Converted("sycc422")
    /\ trace.before.x0 = 1
    /\ trace.before.comps[1].w = 4
    /\ trace.before.comps[1].h = 2
    /\ trace.before.comps[2].w = 2
    /\ trace.before_mem[2][1] # trace.before_mem[2][2]
    /\ OutPixel(4) # OutPixel(5)

\* the pixels the boundary policy names: column 0 when x0 is odd and, in a
\* 4:2:0 image, row 0 when y0 is odd
IsBoundaryPixel(b, hd, row, c) ==
    \/ b.x0 % 2 = 1 /\ c = 0
    \/ hd = "sycc420" /\ b.y0 % 2 = 1 /\ row = 0

\* a pixel without chroma correction: the luma sample in all three planes
GrayOf(v, upb) == [r |-> Clamp(v, upb), g |-> Clamp(v, upb), b |-> Clamp(v, upb)]

\* C17: in the 4:2:2 and 4:2:0 handlers a pixel of the boundary column
\* (x0 odd) or of the boundary row (y0 odd) gets no chroma correction:
\* R = G = B = its luma sample clamped to [0, upb].
C17_BoundaryIsGray ==
    \A hd \in {"sycc422", "sycc420"} :
        (Converted(hd) /\ ShiftsDefined(trace.before)) =>
            LET b == trace.before
                w == b.comps[1].w
            IN  \A row \in 0..(b.comps[1].h - 1) : \A c \in 0..(w - 1) :
                    IsBoundaryPixel(b, hd, row, c) =>
                        OutPixel(row * w + c) =
                            GrayOf(trace.before_mem[1][row * w + c + 1],
                                   Upb(b.comps[1].prec))

\* what the boundary column of a 4:2:2 image does hold: the transform of the
\* luma sample with cb - offset = cr - offset = -offset, since sycc_to_rgb
\* subtracts offset from the arguments 0, 0
C17_BoundaryIsShifted ==
    (Converted("sycc422") /\ ShiftsDefined(trace.before) /\ trace.before.x0 % 2 = 1) =>
        LET b   == trace.before
            w   == b.comps[1].w
            off == Offset(b.comps[1].prec)
            upb == Upb(b.comps[1].prec)
        IN  \A row \in 0..(b.comps[1].h - 1) :
                LET yv == trace.before_mem[1][row * w + 1]
                IN  OutPixel(row * w) =
                        [r |-> Clamp(yv + DToInt(DMul(D_1_402, 0 - off)), upb),
                         g |-> Clamp(yv - DToInt(DAdd(DMul(D_0_344, 0 - off),
                                                      DMul(D_0_714, 0 - off))), upb),
                         b |-> Clamp(yv + DToInt(DMul(D_1_772, 0 - off)), upb)]

\* the sycc_to_rgb calls of a walk that write luma index yi, and the chroma
\* index the one such call reads
CallsFor(ops, yi) == {k \in 1..Len(ops) : ops[k].y = yi}

ChromaOf(ops, yi) == ops[CHOOSE k \in 1..Len(ops) : ops[k].y = yi].c

\* chroma index ci lies in chroma row k of a plane cw samples wide
InChromaRow(ci, k, cw) == ci >= k * cw /\ ci < (k + 1) * cw

\* the vertical boundary policy on the image b the handler was given
BoundaryRow420(b) ==
    LET w   == b.comps[1].w
        h   == b.comps[1].h
        cw  == b.comps[2].w
        ops == Walk420(w, h, b.x0, b.y0)
    IN  /\ \A yi \in 0..(w * h - 1) : Cardinality(CallsFor(ops, yi)) = 1
        /\ \A c \in 0..(w - 1) :
              /\ ChromaOf(ops, c) = NoChroma
              /\ ShiftsDefined(b) =>
                    OutPixel(c) = RefPixel(b, trace.before_mem, c, NoChroma)
        /\ \A k \in 0..(((h - 1) \div 2) - 1) : \A c \in 0..(w - 1) :
              LET c1 == ChromaOf(ops, (1 + 2 * k) * w + c)
                  c2 == ChromaOf(ops, (2 + 2 * k) * w + c)
              IN  /\ c1 # NoChroma => InChromaRow(c1, k, cw)
                  /\ c2 # NoChroma => InChromaRow(c2, k, cw)
                  /\ (c1 # NoChroma /\ c2 # NoChroma) => c1 = c2

\* C18: in sycc420_to_rgb with y0 odd, every column of row 0 is computed
\* with the arguments cb = cr = 0 and the row consumes no chroma sample; the
\* rows after it go in pairs, and both rows of the k-th pair read chroma
\* row k.
C18_BoundaryRow420 ==
    (Converted("sycc420") /\ trace.before.y0 % 2 = 1) =>
        BoundaryRow420(trace.before)

\* the same for the images whose chroma rows hold at least one sample
C18_BoundaryRow420WithChroma ==
    (/\ Converted("sycc420")
     /\ trace.before.y0 % 2 = 1
     /\ trace.before.comps[2].w >= 1) =>
        BoundaryRow420(trace.before)

\* the horizontal boundary policy on luma row rr of a 4:2:0 image with x0
\* odd: rr reads chroma row (rr - offy) div 2
BoundaryColumn420(b, rr) ==
    LET w   == b.comps[1].w
        cw  == b.comps[2].w
        kr  == (rr - (b.y0 % 2)) \div 2
        ops == Walk420(w, b.comps[1].h, b.x0, b.y0)
    IN  /\ ChromaOf(ops, rr * w) = NoChroma
        /\ ShiftsDefined(b) =>
              OutPixel(rr * w) = RefPixel(b, trace.before_mem, rr * w, NoChroma)
        /\ \A c \in 1..(w - 1) :
              ChromaOf(ops, rr * w + c) = kr * cw + ((c - 1) \div 2)

\* C19: in sycc420_to_rgb with x0 odd, in both rows of each row pair and in
\* a trailing unpaired row, column 0 is computed with the arguments
\* cb = cr = 0 and consumes no chroma sample, and column c >= 1 uses the
\* chroma sample (c - 1) div 2 of the row's chroma row.
C19_BoundaryColumn420 ==
    (Converted("sycc420") /\ trace.before.x0 % 2 = 1) =>
        \A rr \in (trace.before.y0 % 2)..(trace.before.comps[1].h - 1) :
            BoundaryColumn420(trace.before, rr)

\* the rows that do follow the policy: the first row of each pair
C19_FirstRowOfPair ==
    (Converted("sycc420") /\ trace.before.x0 % 2 = 1) =>
        LET offy == trace.before.y0 % 2
            h    == trace.before.comps[1].h
        IN  \A k \in 0..(((h - offy) \div 2) - 1) :
                BoundaryColumn420(trace.before, offy + 2 * k)

\* the second row of a pair reads the pair's chroma sample 0 in column 0, and
\* a trailing unpaired row is walked as if x0 were even: column c reads
\* chroma sample c div 2, column 0 included
C19_OtherRows ==
    (Converted("sycc420") /\ trace.before.x0 % 2 = 1) =>
        LET b    == trace.before
            offy == b.y0 % 2
            w    == b.comps[1].w
            h    == b.comps[1].h
            cw   == b.comps[2].w
            ops  == Walk420(w, h, b.x0, b.y0)
        IN  /\ \A k \in 0..(((h - offy) \div 2) - 1) :
                  ChromaOf(ops, (offy + 2 * k + 1) * w) = k * cw
            /\ (h - offy) % 2 = 1 =>
                  \A c \in 0..(w - 1) :
                      ChromaOf(ops, (h - 1) * w + c)
                          = ((h - offy) \div 2) * cw + (c \div 2)

\* w, h, dx, dy of a component
GeometryOf(cmp) == << cmp.w, cmp.h, cmp.dx, cmp.dy >>

\* component c of the image holds a live buffer of n samples
HoldsSamples(img, c, n) ==
    /\ heap[img.comps[c].data].st = "live"
    /\ Len(heap[img.comps[c].data].mem) = n

\* C20: after a successful 4:2:2 or 4:2:0 conversion components 1 and 2 have
\* the w, h, dx, dy of component 0, each of components 0..2 holds
\* comps[0].w * comps[0].h samples and the colour space is sRGB; after a
\* successful 4:4:4 conversion the geometry of every component is unchanged
\* and the colour space is sRGB.
C20_ConvertedGeometry ==
    LET img == imgs[image]
        b   == trace.before
    IN  /\ (Converted("sycc422") \/ Converted("sycc420")) =>
              /\ img.color_space = "OPJ_CLRSPC_SRGB"
              /\ GeometryOf(img.comps[1]) = GeometryOf(b.comps[1])
              /\ \A c \in 2..3 : GeometryOf(img.comps[c]) = GeometryOf(img.comps[1])
              /\ \A c \in 1..3 :
                    HoldsSamples(img, c, img.comps[1].w * img.comps[1].h)
        /\ Converted("sycc444") =>
              /\ img.color_space = "OPJ_CLRSPC_SRGB"
              /\ img.numcomps = b.numcomps
              /\ \A c \in 1..img.numcomps :
                    GeometryOf(img.comps[c]) = GeometryOf(b.comps[c])
              /\ \A c \in 1..3 :
                    HoldsSamples(img, c, img.comps[1].w * img.comps[1].h)

\* a completed 4:2:0 conversion of a 3 x 3 image whose chroma planes were
\* 2 x 2 and are 3 x 3 afterwards
C20_Witness ==
    /\ Converted("sycc420")
    /\ trace.before.color_space = "OPJ_CLRSPC_SYCC"
    /\ GeometryOf(trace.before.comps[2]) = << 2, 2, 2, 2 >>
    /\ GeometryOf(imgs[image].comps[2]) = << 3, 3, 1, 1 >>
    /\ Len(heap[imgs[image].comps[3].data].mem) = 9

(***************************************************************************)
(* Claims about the steps of Decode after opj_decode (checked under Spec). *)
(***************************************************************************)
\* the images the claim says are re-tagged
ShallRetag(img) ==
    /\ img.color_space # "OPJ_CLRSPC_SYCC"
    /\ img.numcomps = 3
    /\ img.comps[1].dx = img.comps[1].dy
    /\ img.comps[2].dx # 1

\* the step Decode takes at the re-tagging test
RetagStep ==
    pc = "retag" =>
        /\ pc' = "color"
        /\ imgs'[image] =
              (IF ShallRetag(imgs[image])
               THEN [imgs[image] EXCEPT !.color_space = "OPJ_CLRSPC_SYCC"]
               ELSE imgs[image])
        /\ trace'.retagged = ShallRetag(imgs[image])

\* the step Decode takes at the colour conversion: the handler is entered
\* (it completes or the process stops in it) exactly for an sYCC image, and
\* upsample_image_components has not been called yet
ColorStep ==
    pc = "color" =>
        /\ pc' \in {"upsample", "crashed"}
        /\ (trace'.color_called \/ pc' = "crashed")
              <=> (imgs[image].color_space = "OPJ_CLRSPC_SYCC")
        /\ ~trace.ups_called
        /\ ~trace.color_called

\* color_sycc_to_rgb and upsample_image_components are called nowhere else
OnlyThere ==
    /\ (trace'.color_called /\ ~trace.color_called) => pc = "color"
    /\ (trace'.ups_called /\ ~trace.ups_called) => pc = "upsample"
    /\ (trace'.retagged /\ ~trace.retagged) => pc = "retag"

\* C21: after a successful decode, Decode re-tags the image as sYCC exactly
\* when its colour space is not sYCC, it has three components,
\* comps[0].dx = comps[0].dy and comps[1].dx # 1; color_sycc_to_rgb is
\* called exactly when the colour space is sYCC after that step, and before
\* upsample_image_components.
C21_RetagThenColor == [][RetagStep /\ ColorStep /\ OnlyThere]_vars

\* an image that was not tagged sYCC, was re-tagged and then converted by
\* the 4:2:0 handler, upsample_image_components still to come
C21_Witness ==
    /\ pc = "upsample"
    /\ trace.retagged
    /\ trace.color_called
    /\ trace.handler = "sycc420"
    /\ ~trace.ups_called

(***************************************************************************)
(* Claims about the buffers of the colour handlers (checked under Spec).   *)
(***************************************************************************)
HandlerRan == AfterColor /\ trace.handler \in {"sycc444", "sycc422", "sycc420"}

\* the sycc_to_rgb calls of the handler hd on the image b
WalkOf(b, hd) ==
    IF hd = "sycc444" THEN Walk444(0, b.comps[1].w * b.comps[1].h, << >>)
    ELSE IF hd = "sycc422" THEN Walk422(b.comps[1].w, b.comps[1].h, b.x0)
    ELSE Walk420(b.comps[1].w, b.comps[1].h, b.x0, b.y0)

\* the buffers the components of img point to
OwnedBy(img) == {img.comps[c].data : c \in 1..img.numcomps}

\* every live buffer belongs to exactly one component of img, and every
\* component of img has a live buffer
OneOwnerEach(img) ==
    /\ \A c \in 1..img.numcomps : heap[img.comps[c].data].st = "live"
    /\ \A c1 \in 1..img.numcomps : \A c2 \in 1..img.numcomps :
          img.comps[c1].data = img.comps[c2].data => c1 = c2
    /\ \A buf \in 1..NumBufs : heap[buf].st = "live" => buf \in OwnedBy(img)

\* C22: after a sycc*_to_rgb handler each buffer has exactly one owner: on
\* success each of the three old planes was freed exactly once and each new
\* buffer, completely written, is installed in exactly one component; on
\* failure no old plane was freed; no buffer is freed twice, leaked or
\* referenced by two components.
C22_OneOwner ==
    HandlerRan =>
        LET img == imgs[image]
            b   == trace.before
            max == b.comps[1].w * b.comps[1].h
        IN  /\ OneOwnerEach(img)
            /\ \A buf \in 1..NumBufs : heap[buf].frees <= 1
            /\ ~trace.conv_failed =>
                  /\ \A c \in 1..3 :
                        /\ heap[b.comps[c].data].st = "freed"
                        /\ heap[b.comps[c].data].frees = 1
                        /\ img.comps[c].data \notin OwnedBy(b)
                        /\ Len(heap[img.comps[c].data].mem) = max
                  /\ \A i \in 0..(max - 1) :
                        Cardinality(CallsFor(WalkOf(b, trace.handler), i)) = 1
                  /\ \A c \in 4..img.numcomps : img.comps[c].data = b.comps[c].data
            /\ trace.conv_failed =>
                  /\ img = b
                  /\ \A c \in 1..b.numcomps : heap[b.comps[c].data].frees = 0
                  /\ PlanesOf(img, heap) = trace.before_mem

\* a completed 4:4:4 conversion of a four-component image: three old
\* planes freed once, the fourth plane kept
C22_Witness ==
    /\ HandlerRan
    /\ ~trace.conv_failed
    /\ trace.handler = "sycc444"
    /\ imgs[image].numcomps = 4
    /\ heap[1].frees = 1
    /\ heap[4].st = "live"
    /\ imgs[image].comps[2].data = ConvBuf(2)

(***************************************************************************)
(* The first three statements of a handler as a lone call: upb and offset  *)
(* from the precision of component 0.                                      *)
(***************************************************************************)
MaxHandlerPrec == 33

InitShift ==
    /\ IdleDecode
    /\ px = NoPixel
    /\ \E prec \in 1..MaxHandlerPrec, junk \in JunkValues :
        call = [fn |-> "handler_params", prec |-> prec, junk |-> junk,
                called |-> FALSE, offset |-> 0, upb |-> 0]

CallShift ==
    /\ call.fn = "handler_params"
    /\ ~call.called
    /\ call' = [call EXCEPT !.called = TRUE,
                            !.offset = HandlerOffset(call.prec, call.junk),
                            !.upb = HandlerUpb(call.prec, call.junk)]
    /\ UNCHANGED px
    /\ UNCHANGED decodeVars

NextShift == CallShift

SpecShift == InitShift /\ [][NextShift]_vars

(***************************************************************************)
(* Claims about offset and upb (checked under SpecShift).  2^32 - 1 does   *)
(* not fit the integers of the model, so the exact values are compared by  *)
(* their base-65536 digits.                                                *)
(***************************************************************************)
\* the digits, least significant first, of 2^n for n in 0..47
RECURSIVE DigitsOfPow2(_)
DigitsOfPow2(n) ==
    IF n >= 16 THEN << 0 >> \o SubSeq(DigitsOfPow2(n - 16), 1, 2)
    ELSE << Pow2(n), 0, 0 >>

\* the digits of 2^n - 1
DigitsOfPow2Less1(n) ==
    [k \in 1..3 |-> IF n >= 16 * k THEN 65535
                    ELSE IF n > 16 * (k - 1) THEN Pow2(n - 16 * (k - 1)) - 1
                    ELSE 0]

\* the int v is the number with these digits
IntIs(v, digits) ==
    /\ v >= 0
    /\ digits = << v % 65536, v \div 65536, 0 >>

\* C23: for every luma precision prec in 1..32 the handlers compute
\* offset = 2^(prec-1) and upb = 2^prec - 1 exactly, with no wrap-around of
\* the 32-bit int in which 1 << (prec - 1) and (1 << prec) - 1 are evaluated.
C23_OffsetAndUpbExact ==
    (call.fn = "handler_params" /\ call.called /\ call.prec <= 32) =>
        /\ IntIs(call.offset, DigitsOfPow2(call.prec - 1))
        /\ IntIs(call.upb, DigitsOfPow2Less1(call.prec))

\* the same up to the precision whose two shifts are defined in a 32-bit int
C23_ExactUpTo30 ==
    (call.fn = "handler_params" /\ call.called /\ call.prec <= 30) =>
        /\ IntIs(call.offset, DigitsOfPow2(call.prec - 1))
        /\ IntIs(call.upb, DigitsOfPow2Less1(call.prec))
        /\ call.offset = Offset(call.prec)
        /\ call.upb = Upb(call.prec)

\* at 32 bits offset is never 2^31: it is INT_MIN or 0, and upb is 0 or -1
C23_At32 ==
    (call.fn = "handler_params" /\ call.called /\ call.prec = 32) =>
        /\ call.offset \in {INT_MIN, 0}
        /\ call.upb \in {0, 0 - 1}

(***************************************************************************)
(* Claims about the message handlers of Decode (checked under Spec).       *)
(***************************************************************************)
\* the stages in which the codec reads the header and decodes
CodecAtWork == pc \in {"read_header", "set_decode_area", "decode"}

\* C24: when Decode registers info_callback, warning_callback and
\* error_callback the codec already exists, so that the messages the codec
\* emits while it reads the header and decodes reach py_log.
C24_HandlersRegistered ==
    /\ (pc = "stream_create") => (trace.handlers_set /\ codec # "NULL")
    /\ CodecAtWork => trace.handlers_set

\* what holds instead: the three calls are made on the NULL codec, before
\* opj_create_decompress, and no handler is registered at any stage
C24_NeverRegistered ==
    /\ (pc \in {"set_handlers", "stream_create", "create_codec"}) => codec = "NULL"
    /\ ~trace.handlers_set

(***************************************************************************)
(* The quality-layer set-up of EncodeArray and EncodeBuffer of encode.c as *)
(* a lone call.  A list is [len, head, rest]: its length, its first items  *)
(* and the item every later position holds.  An item is a Python object:   *)
(* a float, whose value is kept in halves (half = 3 is 1.5), or not.       *)
(***************************************************************************)
MaxListed == 2

\* the limit of tcp_rates and tcp_distoratio
MaxLayers == 100

RateItems ==
    {[float |-> TRUE, half |-> v] : v \in {0 - 1, 0, 1, 2, 3}}
        \cup {[float |-> FALSE, half |-> 2]}

RateLists ==
    {[len |-> Len(hd), head |-> hd, rest |-> hd[Len(hd)]] :
        hd \in UNION {[1..k -> RateItems] : k \in 1..MaxListed}}
    \cup {[len |-> n, head |-> << it >>, rest |-> r] :
            n \in {MaxLayers, MaxLayers + 1}, it \in RateItems,
            r \in {[float |-> TRUE, half |-> 4], [float |-> FALSE, half |-> 2]}}
    \cup {[len |-> 0, head |-> << >>, rest |-> [float |-> FALSE, half |-> 0]]}

\* PyList_GetItem(list, idx), idx from 0
ItemAt(list, idx) ==
    IF idx < Len(list.head) THEN list.head[idx + 1] ELSE list.rest

\* parameters after opj_set_default_encoder_parameters, as far as this
\* block changes them
DefaultLayers ==
    [code |-> 0, irreversible |-> 0, cp_disto_alloc |-> 0,
     cp_fixed_quality |-> 0, tcp_numlayers |-> 0]

\* the body of for (int idx = 0; idx < nr_layers; idx++): the float test,
\* the test value < least (in halves), and the single layer of the lossless
\* value; a code other than 0 stands for the goto failure
LayerBody(list, idx, p, notFloat, tooLow, least, lossless) ==
    LET item == ItemAt(list, idx)
    IN  IF ~item.float THEN [p EXCEPT !.code = notFloat]
        ELSE IF item.half < least THEN [p EXCEPT !.code = tooLow]
        ELSE IF list.len = 1 /\ item.half = lossless
        THEN [p EXCEPT !.irreversible = 0]
        ELSE p

\* the iterations lo .. hi - 1 of the loop, in order: those of the first
\* half of the range, then, unless one of them left, those of the second
RECURSIVE LayerRange(_, _, _, _, _, _, _, _)
LayerRange(list, lo, hi, p, notFloat, tooLow, least, lossless) ==
    IF lo >= hi THEN p
    ELSE IF hi = lo + 1
    THEN LayerBody(list, lo, p, notFloat, tooLow, least, lossless)
    ELSE LET mid == (lo + hi) \div 2
             p1  == LayerRange(list, lo, mid, p, notFloat, tooLow, least, lossless)
         IN  IF p1.code # 0 THEN p1
             ELSE LayerRange(list, mid, hi, p1, notFloat, tooLow, least, lossless)

LayerLoop(list, idx, p, notFloat, tooLow, least, lossless) ==
    LayerRange(list, idx, list.len, p, notFloat, tooLow, least, lossless)

\* a loop that tests the single layer against the lossless value of the
\* other list
SetUpLossySwapped(cr, snr) ==
    IF cr.len > 0 \/ snr.len > 0
    THEN LET p == [DefaultLayers EXCEPT !.irreversible = 1]
         IN  IF cr.len > 0
             THEN IF cr.len > MaxLayers THEN [p EXCEPT !.code = 11]
                  ELSE LayerLoop(cr, 0, [p EXCEPT !.cp_disto_alloc = 1,
                                                  !.tcp_numlayers = cr.len],
                                 12, 13, 2, 0)
             ELSE IF snr.len > MaxLayers THEN [p EXCEPT !.code = 14]
                  ELSE LayerLoop(snr, 0, [p EXCEPT !.cp_fixed_quality = 1,
                                                   !.tcp_numlayers = snr.len],
                                 15, 16, 0, 2)
    ELSE DefaultLayers

\* if (nr_cr_layers > 0 || nr_snr_layers > 0) { ... }; code 0 stands for
\* going on to the rest of the function
SetUpLossy(cr, snr) ==
    IF cr.len > 0 \/ snr.len > 0
    THEN LET p == [DefaultLayers EXCEPT !.irreversible = 1]
         IN  IF cr.len > 0
             THEN IF cr.len > MaxLayers THEN [p EXCEPT !.code = 11]
                  ELSE LayerLoop(cr, 0, [p EXCEPT !.cp_disto_alloc = 1,
                                                  !.tcp_numlayers = cr.len],
                                 12, 13, 2, 2)
             ELSE IF snr.len > MaxLayers THEN [p EXCEPT !.code = 14]
                  ELSE LayerLoop(snr, 0, [p EXCEPT !.cp_fixed_quality = 1,
                                                   !.tcp_numlayers = snr.len],
                                 15, 16, 0, 0)
    ELSE DefaultLayers

InitLayers ==
    /\ IdleDecode
    /\ px = NoPixel
    /\ \E fn \in {"EncodeArray", "EncodeBuffer"}, cr \in RateLists, snr \in RateLists :
        call = [fn |-> fn, compression_ratios |-> cr, signal_noise_ratios |-> snr,
                called |-> FALSE, parameters |-> DefaultLayers]

EncodeArrayLayers ==
    /\ call.fn = "EncodeArray"
    /\ ~call.called
    /\ call' = [call EXCEPT !.called = TRUE,
                  !.parameters = SetUpLossy(call.compression_ratios,
                                            call.signal_noise_ratios)]
    /\ UNCHANGED px
    /\ UNCHANGED decodeVars

EncodeBufferLayers ==
    /\ call.fn = "EncodeBuffer"
    /\ ~call.called
    /\ call' = [call EXCEPT !.called = TRUE,
                  !.parameters = SetUpLossy(call.compression_ratios,
                                            call.signal_noise_ratios)]
    /\ UNCHANGED px
    /\ UNCHANGED decodeVars

NextLayers == EncodeArrayLayers \/ EncodeBufferLayers

SpecLayers == InitLayers /\ [][NextLayers]_vars

(***************************************************************************)
(* Claims about the quality layers (checked under SpecLayers).             *)
(***************************************************************************)
\* the positions of a list whose item is rejected: not a float, or a float
\* below least (in halves)
Rejected(list, least) ==
    {i \in 0..(list.len - 1) :
        ~ItemAt(list, i).float \/ ItemAt(list, i).half < least}

FirstRejected(list, least) ==
    CHOOSE i \in Rejected(list, least) : \A j \in Rejected(list, least) : i <= j

\* the code the claim gives the list that is used: tooMany for more than
\* 100 layers, notFloat or tooLow for the first item that is rejected, 0
\* when there is none
RefLayerCode(list, least, tooMany, notFloat, tooLow) ==
    IF list.len > 100 THEN tooMany
    ELSE IF Rejected(list, least) = {} THEN 0
    ELSE IF ~ItemAt(list, FirstRejected(list, least)).float THEN notFloat
    ELSE tooLow

\* the transform the claim gives accepted lists
RefIrreversible(cr, snr) ==
    IF cr.len = 0 /\ snr.len = 0 THEN 0
    ELSE IF cr.len = 1 /\ ItemAt(cr, 0).half = 2 THEN 0
    ELSE IF cr.len = 0 /\ snr.len = 1 /\ ItemAt(snr, 0).half = 0 THEN 0
    ELSE 1

\* C25: in EncodeArray and EncodeBuffer alike the transform is irreversible
\* exactly when one of the lists is not empty, except for a single
\* compression ratio of 1 or, without compression ratios, a single
\* signal-to-noise ratio of 0; with both lists only compression_ratios is
\* used; more than 100 layers, an item that is not a float, a ratio below 1
\* and a PSNR below 0 give the codes 11/14, 12/15, 13 and 16.
C25_LayerRules ==
    (call.fn \in {"EncodeArray", "EncodeBuffer"} /\ call.called) =>
        LET cr  == call.compression_ratios
            snr == call.signal_noise_ratios
            p   == call.parameters
        IN  /\ p.code = (IF cr.len > 0 THEN RefLayerCode(cr, 2, 11, 12, 13)
                         ELSE IF snr.len > 0 THEN RefLayerCode(snr, 0, 14, 15, 16)
                         ELSE 0)
            /\ p.code = 0 =>
                  /\ p.irreversible = RefIrreversible(cr, snr)
                  /\ p.tcp_numlayers = (IF cr.len > 0 THEN cr.len ELSE snr.len)
                  /\ p.cp_disto_alloc = (IF cr.len > 0 THEN 1 ELSE 0)
                  /\ p.cp_fixed_quality = (IF cr.len = 0 /\ snr.len > 0 THEN 1 ELSE 0)

\* EncodeBuffer given a single compression ratio of 1 together with a PSNR
\* list that would be rejected on its own: the reversible transform
C25_Witness ==
    /\ call.fn = "EncodeBuffer"
    /\ call.called
    /\ call.compression_ratios.len = 1
    /\ call.compression_ratios.head = << [float |-> TRUE, half |-> 2] >>
    /\ call.signal_noise_ratios.len = MaxLayers + 1
    /\ call.parameters.code = 0
    /\ call.parameters.irreversible = 0

(***************************************************************************)
(* The length test of EncodeBuffer of encode.c as a lone call.  The        *)
(* product of four unsigned int does not fit the integers of the model:    *)
(* lengths are kept as three base-65536 digits, least significant first,   *)
(* and an unsigned int is the first two of them.                           *)
(***************************************************************************)
\* the greatest number of rows and of columns, 0xFFFF
MaxDim == 65535

DigitBase == 65536

\* a * b for a, b below 65536, as two digits
MulDigits(a, b) ==
    LET p0  == a * (b % 256)
        p1  == a * (b \div 256)
        low == p0 + 256 * (p1 % 256)
    IN  << low % DigitBase, (p1 \div 256) + (low \div DigitBase) >>

\* d * k for a small k, exactly, as three digits
ScaleDigits(d, k) ==
    LET t0 == d[1] * k
        t1 == d[2] * k + (t0 \div DigitBase)
        t2 == (IF Len(d) >= 3 THEN d[3] * k ELSE 0) + (t1 \div DigitBase)
    IN  << t0 % DigitBase, t1 % DigitBase, t2 >>

\* d * k in unsigned int: the product modulo 2^32
MulUnsigned(d, k) == SubSeq(ScaleDigits(<< d[1], d[2] >>, k), 1, 2)

\* bytes_per_pixel from bits_stored, 0 for the return of code 50
BytesPerPixel(bits_stored) ==
    IF bits_stored > 0 /\ bits_stored <= 8 THEN 1
    ELSE IF bits_stored > 8 /\ bits_stored <= 16 THEN 2
    ELSE IF bits_stored > 16 /\ bits_stored <= 24 THEN 4
    ELSE 0

\* OPJ_INT64 expected_length = rows * columns * samples_per_pixel *
\* bytes_per_pixel: the operands are unsigned int, so is the product, and
\* it is widened afterwards
ExpectedLength(rows, columns, samples_per_pixel, bytes_per_pixel) ==
    MulUnsigned(MulUnsigned(MulDigits(rows, columns), samples_per_pixel),
                bytes_per_pixel) \o << 0 >>

\* the tests of EncodeBuffer up to the length test; 0 stands for going on
CheckLength(actual_length, columns, rows, samples_per_pixel, bits_stored) ==
    IF BytesPerPixel(bits_stored) = 0 THEN 50
    ELSE IF samples_per_pixel \notin {1, 3, 4} THEN 51
    ELSE IF rows < 1 \/ rows > MaxDim THEN 52
    ELSE IF columns < 1 \/ columns > MaxDim THEN 53
    ELSE IF actual_length # ExpectedLength(rows, columns, samples_per_pixel,
                                           BytesPerPixel(bits_stored))
    THEN 55
    ELSE 0

\* the exact product, digit by digit
ExactProduct(rows, columns, spp, bpp) ==
    ScaleDigits(ScaleDigits(MulDigits(rows, columns) \o << 0 >>, spp), bpp)

InitLength ==
    /\ IdleDecode
    /\ px = NoPixel
    /\ \E rows \in {1, 2, 256, 32768, MaxDim - 1, MaxDim},
          columns \in {1, 2, 256, 32768, MaxDim - 1, MaxDim},
          spp \in {1, 3, 4}, bits \in {1, 8, 9, 16, 17, 24} :
       \* the lengths of src that are tried: the exact product, the product
       \* less 2^32 times its third digit, and a length that is neither
       \E e \in {ExactProduct(rows, columns, spp, BytesPerPixel(bits))} :
       \E len \in {e, << e[1], e[2], 0 >>,
                   << (e[1] + 1) % DigitBase, e[2], e[3] >>} :
        call = [fn |-> "EncodeBuffer_length", rows |-> rows, columns |-> columns,
                samples_per_pixel |-> spp, bits_stored |-> bits,
                actual_length |-> len, called |-> FALSE, code |-> 0]

CallLength ==
    /\ call.fn = "EncodeBuffer_length"
    /\ ~call.called
    /\ call' = [call EXCEPT !.called = TRUE,
                  !.code = CheckLength(call.actual_length, call.columns, call.rows,
                                       call.samples_per_pixel, call.bits_stored)]
    /\ UNCHANGED px
    /\ UNCHANGED decodeVars

NextLength == CallLength

SpecLength == InitLength /\ [][NextLength]_vars

(***************************************************************************)
(* Claims about the length test (checked under SpecLength).                *)
(***************************************************************************)
LengthTested == call.fn = "EncodeBuffer_length" /\ call.called

\* C26: in EncodeBuffer, for rows and columns in 1..65535, samples_per_pixel
\* in {1, 3, 4} and bytes_per_pixel in {1, 2, 4}, expected_length is the
\* exact product rows * columns * samples_per_pixel * bytes_per_pixel, so
\* that src is accepted exactly when its length is that product and is
\* rejected with code 55 otherwise.
C26_ExactLength ==
    LengthTested =>
        LET e == ExactProduct(call.rows, call.columns, call.samples_per_pixel,
                              BytesPerPixel(call.bits_stored))
        IN  /\ ExpectedLength(call.rows, call.columns, call.samples_per_pixel,
                              BytesPerPixel(call.bits_stored)) = e
            /\ call.code = (IF call.actual_length = e THEN 0 ELSE 55)

\* the same for the products below 2^32
C26_ExactBelowWrap ==
    (/\ LengthTested
     /\ ExactProduct(call.rows, call.columns, call.samples_per_pixel,
                     BytesPerPixel(call.bits_stored))[3] = 0) =>
        LET e == ExactProduct(call.rows, call.columns, call.samples_per_pixel,
                              BytesPerPixel(call.bits_stored))
        IN  /\ ExpectedLength(call.rows, call.columns, call.samples_per_pixel,
                              BytesPerPixel(call.bits_stored)) = e
            /\ call.code = (IF call.actual_length = e THEN 0 ELSE 55)

\* from 2^32 on the test compares with the product modulo 2^32
C26_WrappedFrom32Bits ==
    LengthTested =>
        LET e == ExactProduct(call.rows, call.columns, call.samples_per_pixel,
                              BytesPerPixel(call.bits_stored))
        IN  call.code = (IF call.actual_length = << e[1], e[2], 0 >> THEN 0 ELSE 55)

(***************************************************************************)
(* Claims about the accesses of the subsampled handlers (checked under     *)
(* Spec).  The images Decode hands them have chroma planes of the size of  *)
(* the reference grid: w = ceil(x1/2) - ceil(x0/2), and for 4:2:0          *)
(* h = ceil(y1/2) - ceil(y0/2).                                            *)
(***************************************************************************)
OnReferenceGrid(b, hd) ==
    \A c \in 2..3 :
        /\ b.comps[c].w = CeilDiv(b.x1, 2) - CeilDiv(b.x0, 2)
        /\ b.comps[c].h = (IF hd = "sycc420"
                           THEN CeilDiv(b.y1, 2) - CeilDiv(b.y0, 2)
                           ELSE b.y1 - b.y0)

\* every access of the handler hd on the image b with planes mem is inside
\* the plane it is made to
AccessesInside(b, mem, hd) ==
    LET ops == WalkOf(b, hd)
        max == b.comps[1].w * b.comps[1].h
    IN  /\ \A k \in 1..Len(ops) :
              /\ ops[k].y >= 0 /\ ops[k].y < max
              /\ ops[k].c # NoChroma =>
                    /\ ops[k].c >= 0
                    /\ ops[k].c < b.comps[2].w * b.comps[2].h
                    /\ ops[k].c < Len(mem[2])
                    /\ ops[k].c < Len(mem[3])
        /\ Len(mem[1]) = max

\* C27: in sycc422_to_rgb and sycc420_to_rgb, for every image of width and
\* height >= 1, any parity of x0 and y0 and chroma planes of the size of the
\* reference grid, every Cb and Cr read is at an index below the chroma
\* plane's w * h and every luma read and R, G, B write at an index below
\* the luma plane's w * h.
C27_AccessesInBounds ==
    \A hd \in {"sycc422", "sycc420"} :
        (Converted(hd) /\ OnReferenceGrid(trace.before, hd)) =>
            /\ AccessesInside(trace.before, trace.before_mem, hd)
            /\ ~trace.conv_oob_read

\* the part that holds: the 4:2:2 handler, and the 4:2:0 handler when x0 is
\* even
C27_InBoundsAtEvenX0 ==
    /\ Converted("sycc422") =>
          /\ OnReferenceGrid(trace.before, "sycc422")
          /\ AccessesInside(trace.before, trace.before_mem, "sycc422")
    /\ (Converted("sycc420") /\ trace.before.x0 % 2 = 0) =>
          /\ OnReferenceGrid(trace.before, "sycc420")
          /\ AccessesInside(trace.before, trace.before_mem, "sycc420")
          /\ ~trace.conv_oob_read

\* luma reads and R, G, B writes are inside for every image
C27_LumaInBounds ==
    \A hd \in {"sycc422", "sycc420"} :
        Converted(hd) =>
            \A k \in 1..Len(WalkOf(trace.before, hd)) :
                /\ WalkOf(trace.before, hd)[k].y >= 0
                /\ WalkOf(trace.before, hd)[k].y
                      < trace.before.comps[1].w * trace.before.comps[1].h

(***************************************************************************)
(* Claims about the accesses of upsample_image_components (checked under   *)
(* Spec).                                                                  *)
(***************************************************************************)
\* upsample_image_components built a new image from the image it was given
Upsampled == AfterUpsample /\ trace.ups_result # trace.ups_arg

\* the components whose plane is filled by the upsampling loops
FilledComponents(b) ==
    {c \in 1..b.numcomps : b.comps[c].dx > 1 \/ b.comps[c].dy > 1}

\* C28: for every component that passes the geometry check (xoff < dx and
\* yoff < dy), every write of upsample_image_components to the destination
\* plane is below new_w * new_h and every read of the source plane below
\* the source's w * h, whatever the destination size, sizes smaller than
\* xoff columns or yoff rows included.
C28_UpsampleInBounds ==
    Upsampled =>
        \A c \in FilledComponents(trace.ups_before) :
            (/\ XOff(trace.ups_before, c) < trace.ups_before.comps[c].dx
             /\ YOff(trace.ups_before, c) < trace.ups_before.comps[c].dy) =>
                /\ ~FillOf(trace.ups_before, trace.ups_before_mem, c).oobw
                /\ ~FillOf(trace.ups_before, trace.ups_before_mem, c).oobr

\* the part that holds: a destination of at least xoff columns and yoff
\* rows is filled inside the buffers, and no read of the source plane is
\* ever outside it
C28_InBoundsWhenOffsetsFit ==
    Upsampled =>
        \A c \in FilledComponents(trace.ups_before) :
            LET p == NewCmptParm(trace.ups_before, c)
            IN  /\ ~FillOf(trace.ups_before, trace.ups_before_mem, c).oobr
                /\ (XOff(trace.ups_before, c) <= p.w /\ YOff(trace.ups_before, c) <= p.h)
                      => ~FillOf(trace.ups_before, trace.ups_before_mem, c).oobw

(***************************************************************************)
(* Claims about what color_sycc_to_rgb leaves alone (checked under Spec).  *)
(***************************************************************************)
\* the fields of a component the claim names
FrameOf(cmp) == << cmp.data, cmp.w, cmp.h, cmp.dx, cmp.dy >>

\* C29: color_sycc_to_rgb changes nothing outside components 0..2 and the
\* colour space: the data, w, h, dx, dy of every component from index 3 on,
\* x0, y0, x1, y1 of the image and w, h, dx, dy, prec of the luma component
\* are after the call what they were before, on success and on failure.
C29_FrameOfConversion ==
    AfterColor =>
        LET img == imgs[image]
            b   == trace.before
        IN  /\ img.numcomps = b.numcomps
            /\ << img.x0, img.y0, img.x1, img.y1 >> = << b.x0, b.y0, b.x1, b.y1 >>
            /\ \A c \in 4..b.numcomps :
                  /\ FrameOf(img.comps[c]) = FrameOf(b.comps[c])
                  /\ heap[img.comps[c].data] = LiveBuf(trace.before_mem[c])
            /\ b.numcomps >= 1 =>
                  /\ GeometryOf(img.comps[1]) = GeometryOf(b.comps[1])
                  /\ img.comps[1].prec = b.comps[1].prec

\* a completed 4:2:0 conversion of an image with a fourth component, whose
\* plane of four samples is still there
C29_Witness ==
    /\ Converted("sycc420")
    /\ trace.before.numcomps = 4
    /\ trace.before.comps[2].w < trace.before.comps[1].w
    /\ imgs[image].comps[4].data = 4
    /\ Len(heap[4].mem) = 4
    /\ imgs[image].comps[2].w = imgs[image].comps[1].w

(***************************************************************************)
(* The legacy decoder of Jpeg2KDecode.c: ImagingJpeg2KDecode called again  *)
(* and again on one ImagingCodecState.  outcome is how j2k_decode_entry    *)
(* ends if it is run: every path through it sets DONE with                 *)
(* IMAGING_CODEC_END or FAILED with IMAGING_CODEC_BROKEN or                *)
(* IMAGING_CODEC_MEMORY, and returns -1.                                   *)
(***************************************************************************)
MaxCalls == 8

MaxBytes == 4

j2k_decode_entry(st, outcome) ==
    [st EXCEPT
        !.state = (IF outcome = "done" THEN "J2K_STATE_DONE" ELSE "J2K_STATE_FAILED"),
        !.errcode = (IF outcome = "done" THEN "IMAGING_CODEC_END"
                     ELSE IF outcome = "memory" THEN "IMAGING_CODEC_MEMORY"
                     ELSE "IMAGING_CODEC_BROKEN"),
        !.entries = st.entries + 1,
        !.ret = 0 - 1]

Broken(st) ==
    [st EXCEPT !.errcode = "IMAGING_CODEC_BROKEN", !.state = "J2K_STATE_FAILED",
               !.ret = 0 - 1]

ImagingJpeg2KDecode(st, bytes, outcome) ==
    IF bytes # 0 THEN Broken(st)
    ELSE IF st.state = "J2K_STATE_DONE" \/ st.state = "J2K_STATE_FAILED"
    THEN [st EXCEPT !.ret = 0 - 1]
    ELSE IF st.state = "J2K_STATE_START"
    THEN j2k_decode_entry([st EXCEPT !.state = "J2K_STATE_DECODING"], outcome)
    ELSE IF st.state = "J2K_STATE_DECODING" THEN Broken(st)
    ELSE [st EXCEPT !.ret = 0 - 1]

\* the codec state before the first call
FreshState ==
    [state |-> "J2K_STATE_START", errcode |-> "0", entries |-> 0, ret |-> 0]

InitLegacy ==
    /\ IdleDecode
    /\ px = NoPixel
    /\ call = [fn |-> "ImagingJpeg2KDecode", calls |-> 0, bytes |-> 0,
               before |-> FreshState, st |-> FreshState]

CallLegacy ==
    /\ call.fn = "ImagingJpeg2KDecode"
    /\ call.calls < MaxCalls
    /\ \E bytes \in 0..MaxBytes, outcome \in {"done", "broken", "memory"} :
        call' = [call EXCEPT !.calls = call.calls + 1, !.bytes = bytes,
                             !.before = call.st,
                             !.st = ImagingJpeg2KDecode(call.st, bytes, outcome)]
    /\ UNCHANGED px
    /\ UNCHANGED decodeVars

NextLegacy == CallLegacy

SpecLegacy == InitLegacy /\ [][NextLegacy]_vars

(***************************************************************************)
(* Claims about the legacy decoder (checked under SpecLegacy).             *)
(***************************************************************************)
\* the last call found the decoder in a terminal state
CalledWhenTerminal ==
    /\ call.fn = "ImagingJpeg2KDecode"
    /\ call.calls >= 1
    /\ call.before.state \in {"J2K_STATE_DONE", "J2K_STATE_FAILED"}

\* C30: DONE and FAILED are terminal: once state->state is J2K_STATE_DONE or
\* J2K_STATE_FAILED, every later call of ImagingJpeg2KDecode, whatever
\* bytes is, returns -1, leaves state->state and state->errcode as they
\* are and does not run j2k_decode_entry.
C30_TerminalStates ==
    CalledWhenTerminal =>
        /\ call.st.ret = 0 - 1
        /\ call.st.state = call.before.state
        /\ call.st.errcode = call.before.errcode
        /\ call.st.entries = call.before.entries

\* what holds: such a call returns -1 and never runs j2k_decode_entry; it
\* leaves state and errcode alone when bytes is 0, and sets FAILED and
\* IMAGING_CODEC_BROKEN when bytes is not 0
C30_TerminalForNoBytes ==
    CalledWhenTerminal =>
        /\ call.st.ret = 0 - 1
        /\ call.st.entries = call.before.entries
        /\ call.st.entries = 1 \/ call.before.state = "J2K_STATE_FAILED"
        /\ call.bytes = 0 =>
              /\ call.st.state = call.before.state
              /\ call.st.errcode = call.before.errcode
        /\ call.bytes # 0 =>
              /\ call.st.state = "J2K_STATE_FAILED"
              /\ call.st.errcode = "IMAGING_CODEC_BROKEN"

=============================================================================
